---- MODULE Spec2Model ----
(***************************************************************************)
(* Model of the ledger processing pipeline of avaro/zhang:                 *)
(*   - Ledger::sort_directives_datetime   (core/src/ledger.rs)             *)
(*   - Ledger::process, the fold          (core/src/ledger.rs)             *)
(*   - Ledger::is_transaction_balanced    (core/src/ledger.rs)             *)
(*   - Operations over the Store          (core/src/domains/mod.rs)        *)
(*   - BeancountTransformer::transform    (transformers/beancount/src/lib.rs) *)
(* Decimals are fixed-point integers counted in units of 10^-Scale.        *)
(***************************************************************************)
EXTENDS Integers, Sequences, FiniteSets, TLC

VARIABLES
    pc,            \* position of the running entry point
    sort_in,       \* argument of a direct call of sort_directives_datetime or of transform
    sort_out,      \* its result
    sort_twice,    \* the result sorted once more
    input,         \* the directive list handed to Ledger::process
    merged_metas,  \* local of process: builtin + meta directives, reversed and de-duplicated
    directives,    \* local of process: the dated directives, sorted
    cursor,        \* number of directives the fold loop has consumed
    ledger,        \* the Ledger under construction: options, metas, directives, trx_counter
    store,         \* the Store behind Ledger.store
    uuid,          \* number of UUIDs drawn so far
    folded,        \* history: the directives in the order their handler ran
    bal_txn,       \* argument of a direct call of is_transaction_balanced
    bal_result,    \* its result
    answer         \* what a read operation of Operations returned, per argument

(* ---------------------------------------------------------------------- *)
(* Bounds                                                                 *)
(* ---------------------------------------------------------------------- *)
MaxSortLen == 3     \* longest list handed to the sort
MaxDate == 2        \* datetimes are 1..MaxDate

(* ---------------------------------------------------------------------- *)
(* Directives                                                             *)
(* ---------------------------------------------------------------------- *)
\* Option<DateTime>::None
NoDatetime == 0

Dates == 1 .. MaxDate

\* DirectiveType::BalancePad | DirectiveType::BalanceCheck
BalanceKinds == {"BalancePad", "BalanceCheck"}

\* directive kinds that carry no date
MetaKinds == {"Option", "Plugin", "Include", "Comment"}

\* Spanned<Directive>::directive_type
directive_type(d) == d.kind

\* Spanned<Directive>::datetime
datetime(d) == IF d.kind \in MetaKinds THEN NoDatetime ELSE d.date

(* ---------------------------------------------------------------------- *)
(* Ledger::sort_directives_datetime                                       *)
(* ---------------------------------------------------------------------- *)
\* a comparator that drops the balance tie-break
sort_cmp_no_tiebreak(a, b) ==
    IF datetime(a) # NoDatetime /\ datetime(b) # NoDatetime
    THEN IF datetime(a) < datetime(b) THEN "Less"
         ELSE IF datetime(a) > datetime(b) THEN "Greater"
         ELSE "Equal"
    ELSE "Greater"

\* a comparator that orders datetimes the wrong way round
sort_cmp_desc(a, b) ==
    IF datetime(a) # NoDatetime /\ datetime(b) # NoDatetime
    THEN IF datetime(a) > datetime(b) THEN "Less"
         ELSE IF datetime(a) < datetime(b) THEN "Greater"
         ELSE "Equal"
    ELSE "Greater"

\* a comparator that answers Less for two directives of the same class
sort_cmp_tie_less(a, b) ==
    IF datetime(a) # NoDatetime /\ datetime(b) # NoDatetime
    THEN IF datetime(a) < datetime(b) THEN "Less"
         ELSE IF datetime(a) > datetime(b) THEN "Greater"
         ELSE IF directive_type(a) \in BalanceKinds /\ directive_type(b) \notin BalanceKinds THEN "Less"
         ELSE IF directive_type(a) \notin BalanceKinds /\ directive_type(b) \in BalanceKinds THEN "Greater"
         ELSE "Less"
    ELSE "Greater"

\* the closure handed to sort_by
sort_cmp(a, b) ==
    IF datetime(a) # NoDatetime /\ datetime(b) # NoDatetime
    THEN IF datetime(a) < datetime(b) THEN "Less"
         ELSE IF datetime(a) > datetime(b) THEN "Greater"
         ELSE IF directive_type(a) \in BalanceKinds /\ directive_type(b) \in BalanceKinds THEN "Equal"
         ELSE IF directive_type(a) \in BalanceKinds THEN "Less"
         ELSE IF directive_type(b) \in BalanceKinds THEN "Greater"
         ELSE "Equal"
    ELSE "Greater"

\* v with the elements at i and j exchanged
Swap(v, i, j) == [v EXCEPT ![i] = v[j], ![j] = v[i]]

\* slice::sort_by on a short slice is an insertion sort: the element at i
\* moves left while the comparator says it is Less than its left neighbour
RECURSIVE insert_tail(_, _)
insert_tail(v, i) ==
    IF i > 1 /\ sort_cmp(v[i], v[i - 1]) = "Less"
    THEN insert_tail(Swap(v, i - 1, i), i - 1)
    ELSE v

RECURSIVE insertion_sort(_, _)
insertion_sort(v, i) ==
    IF i > Len(v) THEN v ELSE insertion_sort(insert_tail(v, i), i + 1)

\* slice::sort_by: the lengths up to which a slice is sorted by insertion,
\* and below which a run is filled up by insertion
MAX_INSERTION == 20
MIN_INSERTION_RUN == 10

\* is_less of slice::sort_by: compare(a, b) == Less
is_less(a, b) == sort_cmp(a, b) = "Less"

\* v with what lies behind its first start elements, up to element end,
\* replaced by the slice
Splice(v, start, end, slice) == SubSeq(v, 1, start) \o slice \o SubSeq(v, end + 1, Len(v))

\* <[T]>::reverse
slice_reverse(v) == [i \in 1 .. Len(v) |-> v[Len(v) + 1 - i]]

\* find_streak, the scan: the streak v begins with goes on while each
\* element is less than the one before it (assume_reverse) or is not
RECURSIVE streak_end(_, _, _)
streak_end(v, end, assume_reverse) ==
    IF end < Len(v) /\ (is_less(v[end + 1], v[end]) <=> assume_reverse)
    THEN streak_end(v, end + 1, assume_reverse)
    ELSE end

\* find_streak: the length of the run v begins with, and whether it descends
find_streak(v) ==
    IF Len(v) < 2 THEN [end |-> Len(v), was_reversed |-> FALSE]
    ELSE [end |-> streak_end(v, 2, is_less(v[2], v[1])), was_reversed |-> is_less(v[2], v[1])]

\* provide_sorted_batch: a run shorter than MIN_INSERTION_RUN is filled up
\* with the elements behind it by insertion
provide_sorted_batch(v, start, end) ==
    IF end - start < MIN_INSERTION_RUN /\ end < Len(v)
    THEN LET new_end == IF start + MIN_INSERTION_RUN < Len(v) THEN start + MIN_INSERTION_RUN ELSE Len(v)
             presorted_start == IF end - start > 1 THEN end - start ELSE 1
         IN  [v |-> Splice(v, start, new_end,
                           insertion_sort(SubSeq(v, start + 1, new_end), presorted_start + 1)),
              end |-> new_end]
    ELSE [v |-> v, end |-> end]

\* merge with the shorter left run in the buffer: from the front, the head
\* of the right run goes first when it is less than the head of the left
RECURSIVE merge_up(_, _)
merge_up(left, right) ==
    IF left = << >> THEN right
    ELSE IF right = << >> THEN left
    ELSE IF is_less(Head(right), Head(left))
         THEN << Head(right) >> \o merge_up(left, Tail(right))
         ELSE << Head(left) >> \o merge_up(Tail(left), right)

\* merge with the shorter right run in the buffer: from the back, the last
\* of the left run goes last when the last of the right is less than it
RECURSIVE merge_down(_, _)
merge_down(left, right) ==
    IF left = << >> THEN right
    ELSE IF right = << >> THEN left
    ELSE IF is_less(right[Len(right)], left[Len(left)])
         THEN Append(merge_down(SubSeq(left, 1, Len(left) - 1), right), left[Len(left)])
         ELSE Append(merge_down(left, SubSeq(right, 1, Len(right) - 1)), right[Len(right)])

\* merge: the runs v[..mid] and v[mid..] merged
merge(v, mid) ==
    IF mid <= Len(v) - mid
    THEN merge_up(SubSeq(v, 1, mid), SubSeq(v, mid + 1, Len(v)))
    ELSE merge_down(SubSeq(v, 1, mid), SubSeq(v, mid + 1, Len(v)))

\* TimSortRun
TimSortRun(start, len) == [start |-> start, len |-> len]

\* collapse: the index of the left one of the two runs to merge next, 0 for
\* None
collapse(runs, stop) ==
    LET n == Len(runs)
    IN  IF /\ n >= 2
           /\ \/ runs[n].start + runs[n].len = stop
              \/ runs[n - 1].len <= runs[n].len
              \/ (n >= 3 /\ runs[n - 2].len <= runs[n - 1].len + runs[n].len)
              \/ (n >= 4 /\ runs[n - 3].len <= runs[n - 2].len + runs[n - 1].len)
        THEN IF n >= 3 /\ runs[n - 2].len < runs[n].len THEN n - 2 ELSE n - 1
        ELSE 0

\* while let Some(r) = collapse(..): the runs r and r + 1 are merged
RECURSIVE collapse_loop(_, _)
collapse_loop(v, runs) ==
    LET r == collapse(runs, Len(v))
    IN  IF r = 0 THEN [v |-> v, runs |-> runs]
        ELSE LET left == runs[r]
                 right == runs[r + 1]
                 merged == merge(SubSeq(v, left.start + 1, right.start + right.len), left.len)
             IN  collapse_loop(
                     Splice(v, left.start, right.start + right.len, merged),
                     SubSeq(runs, 1, r - 1)
                         \o << TimSortRun(left.start, left.len + right.len) >>
                         \o SubSeq(runs, r + 2, Len(runs)))

\* merge_sort, the loop: the next run is found from start on, turned round
\* when it descends, filled up, pushed, and the runs are collapsed
RECURSIVE merge_sort_loop(_, _, _)
merge_sort_loop(v, runs, start) ==
    IF start >= Len(v) THEN v
    ELSE LET streak == find_streak(SubSeq(v, start + 1, Len(v)))
             end == start + streak.end
             turned == IF streak.was_reversed
                       THEN Splice(v, start, end, slice_reverse(SubSeq(v, start + 1, end)))
                       ELSE v
             batch == provide_sorted_batch(turned, start, end)
             collapsed == collapse_loop(batch.v, Append(runs, TimSortRun(start, batch.end - start)))
         IN  merge_sort_loop(collapsed.v, collapsed.runs, batch.end)

\* slice::sort_by: insertion sort up to MAX_INSERTION elements, the merge
\* sort of runs above
merge_sort(v) ==
    IF Len(v) <= MAX_INSERTION THEN insertion_sort(v, 2) ELSE merge_sort_loop(v, << >>, 0)

sort_directives_datetime(ds) == merge_sort(ds)

(* ---------------------------------------------------------------------- *)
(* Amounts and rounding                                                   *)
(* ---------------------------------------------------------------------- *)
\* number of fractional decimal digits the fixed-point numbers carry
Scale == 3

RECURSIVE Pow10(_)
Pow10(n) == IF n <= 0 THEN 1 ELSE 10 * Pow10(n - 1)

\* zhang_ast::amount::Amount
Amount(n, c) == [number |-> n, currency |-> c]

\* Option<Amount>
SomeAmount(n, c) == [some |-> TRUE, number |-> n, currency |-> c]
NoAmount == [some |-> FALSE, number |-> 0, currency |-> ""]

\* BigDecimalExt::round_with: to the nearest multiple of 10^-precision; a
\* dropped half goes up under RoundUp and down under RoundDown
round_with(n, precision, is_up) ==
    IF precision >= Scale THEN n
    ELSE LET u == Pow10(Scale - precision)
             q == n \div u
             r == n % u
         IN  IF 2 * r > u THEN (q + 1) * u
             ELSE IF 2 * r < u THEN q * u
             ELSE IF is_up THEN (q + 1) * u ELSE q * u

(* ---------------------------------------------------------------------- *)
(* Store and Operations                                                   *)
(* ---------------------------------------------------------------------- *)
\* a map with the entry k -> v inserted or replaced
MapPut(m, k, v) == [x \in (DOMAIN m) \cup {k} |-> IF x = k THEN v ELSE m[x]]

\* Store::default
EmptyStore ==
    [ options        |-> << >>,
      accounts       |-> << >>,
      commodities    |-> << >>,
      transactions   |-> << >>,
      postings       |-> << >>,
      prices         |-> << >>,
      commodity_lots |-> << >>,
      documents      |-> << >>,
      metas          |-> << >>,
      errors         |-> << >> ]

\* Account::account_type, the segment before the first colon
AccountType(account) ==
    CASE account = "Assets:A"    -> "Assets"
      [] account = "Expenses:B"  -> "Expenses"
      [] account = "Equity:Open" -> "Equity"
      [] account = "Liabilities:C" -> "Liabilities"
      [] account = "Income:D"    -> "Income"
      [] OTHER                   -> "Assets"

\* Operations::insert_or_update_options
insert_or_update_options(st, key, value) ==
    [st EXCEPT !.options = MapPut(@, key, value)]

\* insert_or_update_account that writes the whole record again
insert_or_update_account_overwrite(st, dt, account, status, alias) ==
    [st EXCEPT !.accounts = MapPut(@, account,
        [date |-> dt, type |-> AccountType(account), name |-> account,
         status |-> status, alias |-> alias])]

\* Operations::insert_or_update_account
insert_or_update_account(st, dt, account, status, alias) ==
    IF account \in DOMAIN st.accounts
    THEN [st EXCEPT !.accounts[account].status = status]
    ELSE [st EXCEPT !.accounts = MapPut(@, account,
            [date |-> dt, type |-> AccountType(account), name |-> account,
             status |-> status, alias |-> alias])]

\* close_account that makes a closed record for an account it does not find
close_account_or_insert(st, account) ==
    IF account \in DOMAIN st.accounts
    THEN [st EXCEPT !.accounts[account].status = "Close"]
    ELSE [st EXCEPT !.accounts = MapPut(@, account,
            [date |-> 0, type |-> AccountType(account), name |-> account,
             status |-> "Close", alias |-> "None"])]

\* Operations::close_account
close_account(st, account) ==
    IF account \in DOMAIN st.accounts
    THEN [st EXCEPT !.accounts[account].status = "Close"]
    ELSE st

\* Operations::insert_commodity
insert_commodity(st, name, precision, prefix, suffix, rounding) ==
    [st EXCEPT !.commodities = MapPut(@, name,
        [name |-> name, precision |-> precision, prefix |-> prefix,
         suffix |-> suffix, rounding |-> rounding])]

\* Operations::commodity
commodity(st, name) ==
    IF name \in DOMAIN st.commodities
    THEN [some |-> TRUE, precision |-> st.commodities[name].precision,
          rounding |-> st.commodities[name].rounding]
    ELSE [some |-> FALSE, precision |-> 0, rounding |-> "None"]

\* Operations::insert_price
insert_price(st, dt, name, amount, target) ==
    [st EXCEPT !.prices = Append(@,
        [datetime |-> dt, commodity |-> name, amount |-> amount, target_commodity |-> target])]

\* new_error that records nothing
new_error_dropped(st, id, error_type, span, metas) == st

\* Operations::new_error
new_error(st, id, error_type, span, metas) ==
    [st EXCEPT !.errors = Append(@,
        [id |-> id, error_type |-> error_type, span |-> span, metas |-> metas])]

\* insert_transaction that stores the first sequence number in every header
insert_transaction_sequence_one(st, id, sequence, dt, flag, span) ==
    [st EXCEPT !.transactions = MapPut(@, id,
        [id |-> id, sequence |-> 1, datetime |-> dt, flag |-> flag, span |-> span])]

\* Operations::insert_transaction
insert_transaction(st, id, sequence, dt, flag, span) ==
    [st EXCEPT !.transactions = MapPut(@, id,
        [id |-> id, sequence |-> sequence, datetime |-> dt, flag |-> flag, span |-> span])]

\* insert_transaction_posting, storing the amounts in the wrong fields
insert_transaction_posting_swapped(st, id, trx_id, account, unit, inferred, previous, after) ==
    [st EXCEPT !.postings = Append(@,
        [id |-> id, trx_id |-> trx_id,
         trx_sequence |-> st.transactions[trx_id].sequence,
         trx_datetime |-> st.transactions[trx_id].datetime,
         account |-> account, unit |-> unit,
         inferred_amount |-> inferred, previous_amount |-> after, after_amount |-> previous])]

\* insert_transaction_posting that numbers the postings of one transaction
\* on their own instead of copying the sequence of the header
insert_transaction_posting_own_sequence(st, id, trx_id, account, unit, inferred, previous, after) ==
    [st EXCEPT !.postings = Append(@,
        [id |-> id, trx_id |-> trx_id,
         trx_sequence |-> Len(st.postings) + 1,
         trx_datetime |-> st.transactions[trx_id].datetime,
         account |-> account, unit |-> unit,
         inferred_amount |-> inferred, previous_amount |-> previous, after_amount |-> after])]

\* Operations::insert_transaction_posting (the transaction is known)
insert_transaction_posting(st, id, trx_id, account, unit, inferred, previous, after) ==
    [st EXCEPT !.postings = Append(@,
        [id |-> id, trx_id |-> trx_id,
         trx_sequence |-> st.transactions[trx_id].sequence,
         trx_datetime |-> st.transactions[trx_id].datetime,
         account |-> account, unit |-> unit,
         inferred_amount |-> inferred, previous_amount |-> previous, after_amount |-> after])]

\* account_target_day_balance that leaves the postings of the target
\* datetime itself out
account_target_day_balance_strict(st, account, dt, currency) ==
    LET I == { i \in 1 .. Len(st.postings) :
                 /\ st.postings[i].account = account
                 /\ st.postings[i].after_amount.currency = currency
                 /\ st.postings[i].trx_datetime < dt }
    IN  IF I = {} THEN [some |-> FALSE, number |-> 0, commodity |-> currency]
        ELSE LET last == CHOOSE i \in I : \A j \in I :
                            \/ st.postings[j].trx_datetime < st.postings[i].trx_datetime
                            \/ /\ st.postings[j].trx_datetime = st.postings[i].trx_datetime
                               /\ j <= i
             IN  [some |-> TRUE, number |-> st.postings[last].after_amount.number,
                  commodity |-> currency]

\* Operations::account_target_day_balance: of the postings of the account in
\* the currency dated up to dt, stably sorted by datetime, the last one
account_target_day_balance(st, account, dt, currency) ==
    LET I == { i \in 1 .. Len(st.postings) :
                 /\ st.postings[i].account = account
                 /\ st.postings[i].after_amount.currency = currency
                 /\ st.postings[i].trx_datetime <= dt }
    IN  IF I = {} THEN [some |-> FALSE, number |-> 0, commodity |-> currency]
        ELSE LET last == CHOOSE i \in I : \A j \in I :
                            \/ st.postings[j].trx_datetime < st.postings[i].trx_datetime
                            \/ /\ st.postings[j].trx_datetime = st.postings[i].trx_datetime
                               /\ j <= i
             IN  [some |-> TRUE, number |-> st.postings[last].after_amount.number,
                  commodity |-> currency]

(* ---------------------------------------------------------------------- *)
(* Options                                                                *)
(* ---------------------------------------------------------------------- *)
\* an Option directive as the parser or BuiltinOption emits it
OptionDirective(key, value, span) ==
    [kind |-> "Option", date |-> NoDatetime, span |-> span, key |-> key, value |-> value]

\* BuiltinOption::default_options
default_options ==
    << OptionDirective("operating_currency", "CNY", 0),
       OptionDirective("default_rounding", "RoundDown", 0),
       OptionDirective("default_balance_tolerance_precision", "2", 0),
       OptionDirective("default_commodity_precision", "2", 0) >>

\* InMemoryOptions::default
InMemoryOptionsDefault ==
    [ operating_currency |-> "CNY",
      default_rounding |-> "RoundDown",
      default_balance_tolerance_precision |-> 2,
      default_commodity_precision |-> 2 ]

\* str::parse::<i32> on the digit strings the option values use
ParseInt(s) ==
    CASE s = "0" -> 0
      [] s = "1" -> 1
      [] s = "2" -> 2
      [] s = "3" -> 3
      [] OTHER   -> 0

\* InMemoryOptions::parse, the fields of the recognised keys
options_parse(opts, key, value) ==
    CASE key = "operating_currency" -> [opts EXCEPT !.operating_currency = value]
      [] key = "default_rounding" -> [opts EXCEPT !.default_rounding = value]
      [] key = "default_balance_tolerance_precision" ->
            [opts EXCEPT !.default_balance_tolerance_precision = ParseInt(value)]
      [] key = "default_commodity_precision" ->
            [opts EXCEPT !.default_commodity_precision = ParseInt(value)]
      [] OTHER -> opts

(* ---------------------------------------------------------------------- *)
(* Transactions: inventory and balance                                    *)
(* ---------------------------------------------------------------------- *)
\* the indices of the postings of txn that omit their units
Elided(txn) == { i \in 1 .. Len(txn.postings) : ~txn.postings[i].units.some }

\* the currencies the declared units of txn use
DeclaredCurrencies(txn) ==
    { txn.postings[i].units.currency : i \in (1 .. Len(txn.postings)) \ Elided(txn) }

\* sum of the declared units of the first n postings of txn in currency c
RECURSIVE DeclaredSum(_, _, _)
DeclaredSum(txn, c, n) ==
    IF n = 0 THEN 0
    ELSE DeclaredSum(txn, c, n - 1)
         + (IF txn.postings[n].units.some /\ txn.postings[n].units.currency = c
            THEN txn.postings[n].units.number ELSE 0)

\* the amount that moves on posting i: declared, or the negation of the
\* declared sum for the elision slot
infer_trade_amount(txn, i) ==
    IF txn.postings[i].units.some
    THEN Amount(txn.postings[i].units.number, txn.postings[i].units.currency)
    ELSE LET c == CHOOSE x \in DeclaredCurrencies(txn) : TRUE
         IN  Amount(0 - DeclaredSum(txn, c, Len(txn.postings)), c)

\* Transaction::get_postings_inventory: per currency the total after
\* elision; it cannot be computed when more than one posting elides
get_postings_inventory(txn) ==
    IF Cardinality(Elided(txn)) > 1
    THEN [ok |-> FALSE, currencies |-> << >>]
    ELSE [ok |-> TRUE,
          currencies |-> [c \in DeclaredCurrencies(txn) |->
              IF Elided(txn) # {} THEN 0 ELSE DeclaredSum(txn, c, Len(txn.postings))]]

\* is_transaction_balanced that never looks at the declared commodity
is_transaction_balanced_defaults_only(st, opts, txn) ==
    LET inventory == get_postings_inventory(txn)
    IN  IF ~inventory.ok THEN FALSE
        ELSE \A currency \in DOMAIN inventory.currencies :
                round_with(inventory.currencies[currency],
                           opts.default_balance_tolerance_precision,
                           opts.default_rounding = "RoundUp") = 0

\* Ledger::is_transaction_balanced
is_transaction_balanced(st, opts, txn) ==
    LET inventory == get_postings_inventory(txn)
    IN  IF ~inventory.ok THEN FALSE
        ELSE \A currency \in DOMAIN inventory.currencies :
                LET com == commodity(st, currency)
                    precision == IF com.some THEN com.precision
                                 ELSE opts.default_balance_tolerance_precision
                    rounding == IF com.some /\ com.rounding # "None"
                                THEN com.rounding = "RoundUp"
                                ELSE opts.default_rounding = "RoundUp"
                IN  round_with(inventory.currencies[currency], precision, rounding) = 0

(* ---------------------------------------------------------------------- *)
(* Directive processors                                                   *)
(* ---------------------------------------------------------------------- *)
\* the state a processor works on
Ctx(st, lg, u) == [store |-> st, ledger |-> lg, uuid |-> u]

\* Options::handler
option_handler(c, d) ==
    LET opts == options_parse(c.ledger.options, d.key, d.value)
        st1  == IF d.key = "operating_currency" /\ d.value \notin DOMAIN c.store.commodities
                THEN insert_commodity(c.store, d.value, opts.default_commodity_precision,
                                      "None", "None", opts.default_rounding)
                ELSE c.store
    IN  Ctx(insert_or_update_options(st1, d.key, d.value),
            [c.ledger EXCEPT !.options = opts], c.uuid)

\* Open::handler
open_handler(c, d) ==
    Ctx(insert_or_update_account(c.store, d.date, d.account, "Open", "None"), c.ledger, c.uuid)

\* Close::handler
close_handler(c, d) ==
    Ctx(close_account(c.store, d.account), c.ledger, c.uuid)

\* Commodity::handler
commodity_handler(c, d) ==
    Ctx(insert_commodity(c.store, d.name,
            IF d.precision = "None" THEN c.ledger.options.default_balance_tolerance_precision
            ELSE ParseInt(d.precision),
            "None", "None",
            IF d.rounding = "None" THEN c.ledger.options.default_rounding ELSE d.rounding),
        c.ledger, c.uuid)

\* Price::handler
price_handler(c, d) ==
    Ctx(insert_price(c.store, d.date, d.name, d.amount, d.target), c.ledger, c.uuid)

\* the posting loop of Transaction::handler, from posting i on
RECURSIVE insert_postings(_, _, _, _, _)
insert_postings(st, u, trx_id, txn, i) ==
    IF i > Len(txn.postings) THEN [store |-> st, uuid |-> u]
    ELSE LET p        == txn.postings[i]
             inferred == infer_trade_amount(txn, i)
             option   == account_target_day_balance(st, p.account, txn.date, inferred.currency)
             previous == IF option.some THEN option.number ELSE 0
             after    == previous + inferred.number
         IN  insert_postings(
                 insert_transaction_posting(st, u + 1, trx_id, p.account, p.units, inferred,
                     Amount(previous, inferred.currency), Amount(after, inferred.currency)),
                 u + 1, trx_id, txn, i + 1)

\* Transaction::handler
transaction_handler(c, txn, span) ==
    LET id  == c.uuid + 1
        st1 == insert_transaction(c.store, id, c.ledger.trx_counter, txn.date,
                   IF txn.flag = "None" THEN "Completed" ELSE txn.flag, span)
        multiple == Cardinality(Elided(txn)) > 1
        st2 == IF multiple
               THEN new_error(st1, id + 1, "TransactionHasMultipleImplicitPosting", span, << >>)
               ELSE st1
        u2  == IF multiple THEN id + 1 ELSE id
        unbalanced == ~is_transaction_balanced(st2, c.ledger.options, txn)
        st3 == IF unbalanced
               THEN new_error(st2, u2 + 1, "TransactionNotBalanced", span, << >>)
               ELSE st2
        u3  == IF unbalanced THEN u2 + 1 ELSE u2
        r   == insert_postings(st3, u3, id, txn, 1)
    IN  Ctx(r.store, [c.ledger EXCEPT !.trx_counter = @ + 1], r.uuid)

\* the tolerance test of a balance directive
balance_rounds_to_zero(c, n, currency) ==
    LET com == commodity(c.store, currency)
        precision == IF com.some THEN com.precision
                     ELSE c.ledger.options.default_balance_tolerance_precision
        rounding == IF com.some /\ com.rounding # "None"
                    THEN com.rounding = "RoundUp"
                    ELSE c.ledger.options.default_rounding = "RoundUp"
    IN  round_with(n, precision, rounding) = 0

\* BalanceCheck::handler
balance_check_handler(c, d) ==
    LET option == account_target_day_balance(c.store, d.account, d.date, d.amount.currency)
        actual == IF option.some THEN option.number ELSE 0
    IN  IF balance_rounds_to_zero(c, actual - d.amount.number, d.amount.currency)
        THEN c
        ELSE Ctx(new_error(c.store, c.uuid + 1, "AccountBalanceCheckError", d.span,
                     [expected |-> d.amount.number, actual |-> actual]),
                 c.ledger, c.uuid + 1)

\* BalancePad::handler
balance_pad_handler(c, d) ==
    LET option == account_target_day_balance(c.store, d.account, d.date, d.amount.currency)
        actual == IF option.some THEN option.number ELSE 0
        delta  == d.amount.number - actual
        txn == [kind |-> "Transaction", date |-> d.date, span |-> d.span, flag |-> "Completed",
                postings |-> << [account |-> d.account,
                                 units |-> SomeAmount(delta, d.amount.currency)],
                                [account |-> d.pad,
                                 units |-> SomeAmount(0 - delta, d.amount.currency)] >>]
    IN  transaction_handler(c, txn, d.span)

(* ---------------------------------------------------------------------- *)
(* Ledger::process                                                        *)
(* ---------------------------------------------------------------------- *)
RECURSIVE Reverse(_)
Reverse(s) == IF s = << >> THEN << >> ELSE Append(Reverse(Tail(s)), Head(s))

\* the closure handed to dedup_by: two Option directives of one key
same_option_key(x, y) == x.kind = "Option" /\ y.kind = "Option" /\ x.key = y.key

\* Itertools::dedup_by: of each run of consecutive equal elements the first
RECURSIVE dedup_by(_)
dedup_by(s) ==
    IF Len(s) <= 1 THEN s
    ELSE IF same_option_key(s[1], s[2])
         THEN dedup_by(<<s[1]>> \o Tail(Tail(s)))
         ELSE <<s[1]>> \o dedup_by(Tail(s))

\* partition(|it| it.datetime().is_none())
meta_directives(ds) == SelectSeq(ds, LAMBDA d : datetime(d) = NoDatetime)
dated_directive(ds) == SelectSeq(ds, LAMBDA d : datetime(d) # NoDatetime)

\* default_options().chain(meta_directives).rev().dedup_by(..)
merge_metas(ds) == dedup_by(Reverse(default_options \o meta_directives(ds)))

\* a fold that takes the dated directives first
fold_order_dated_first(mm, ds) == ds \o Reverse(mm)

\* a fold that walks the merged metas without reversing them back
fold_order_metas_reversed(mm, ds) == mm \o ds

\* merged_metas.iter_mut().rev().chain(directives.iter_mut())
fold_order(mm, ds) == Reverse(mm) \o ds

\* the directive the fold loop is at
Current == fold_order(merged_metas, directives)[cursor + 1]

Folding == pc = "fold" /\ cursor < Len(fold_order(merged_metas, directives))

\* Account::from_str succeeds: the name starts with one of the account types
ValidAccount(account) ==
    account \in {"Assets:A", "Assets:B", "Liabilities:C", "Equity:Open", "Income:D", "Expenses:B"}

\* the handler of the directive returns Err(InvalidAccount): an operation it
\* calls fails to parse an account name and the handler passes the error on
Raises(d) ==
    CASE d.kind = "Close"        -> ~ValidAccount(d.account)
      [] d.kind = "BalanceCheck" -> ~ValidAccount(d.account)
      [] d.kind = "BalancePad"   -> ~ValidAccount(d.account) \/ ~ValidAccount(d.pad)
      [] d.kind = "Transaction"  -> \E i \in 1 .. Len(d.postings) : ~ValidAccount(d.postings[i].account)
      [] OTHER                   -> FALSE

\* the loop body's bookkeeping once a handler returned Ok, leaving c
Step(c) ==
    /\ ~Raises(Current)
    /\ store' = c.store
    /\ ledger' = c.ledger
    /\ uuid' = c.uuid
    /\ cursor' = cursor + 1
    /\ folded' = Append(folded, Current)
    /\ UNCHANGED <<pc, input, merged_metas, directives,
                   sort_in, sort_out, sort_twice, bal_txn, bal_result, answer>>

\* process with a sequence counter that outlives the ledger
Load_shared_counter ==
    /\ pc = "load"
    /\ directives' = sort_directives_datetime(dated_directive(input))
    /\ ledger' = [options |-> InMemoryOptionsDefault, directives |-> << >>,
                  metas |-> << >>, trx_counter |-> ledger.trx_counter]
    /\ store' = EmptyStore
    /\ merged_metas' = merge_metas(input)
    /\ cursor' = 0
    /\ pc' = "fold"
    /\ UNCHANGED <<input, uuid, folded, sort_in, sort_out, sort_twice, bal_txn, bal_result, answer>>

\* process folding into the store it finds instead of a new one
Load_old_store ==
    /\ pc = "load"
    /\ directives' = sort_directives_datetime(dated_directive(input))
    /\ ledger' = [options |-> InMemoryOptionsDefault, directives |-> << >>,
                  metas |-> << >>, trx_counter |-> 1]
    /\ store' = store
    /\ merged_metas' = merge_metas(input)
    /\ cursor' = 0
    /\ pc' = "fold"
    /\ UNCHANGED <<input, uuid, folded, sort_in, sort_out, sort_twice, bal_txn, bal_result, answer>>

\* process, up to the fold loop: partition, sort, fresh ledger, merged metas
Load ==
    /\ pc = "load"
    /\ directives' = sort_directives_datetime(dated_directive(input))
    /\ ledger' = [options |-> InMemoryOptionsDefault, directives |-> << >>,
                  metas |-> << >>, trx_counter |-> 1]
    /\ store' = EmptyStore
    /\ merged_metas' = merge_metas(input)
    /\ cursor' = 0
    /\ pc' = "fold"
    /\ UNCHANGED <<input, uuid, folded, sort_in, sort_out, sort_twice, bal_txn, bal_result, answer>>

HandleOption ==
    /\ Folding /\ Current.kind = "Option"
    /\ Step(option_handler(Ctx(store, ledger, uuid), Current))

HandleOpen ==
    /\ Folding /\ Current.kind = "Open"
    /\ Step(open_handler(Ctx(store, ledger, uuid), Current))

HandleClose ==
    /\ Folding /\ Current.kind = "Close"
    /\ Step(close_handler(Ctx(store, ledger, uuid), Current))

HandleCommodity ==
    /\ Folding /\ Current.kind = "Commodity"
    /\ Step(commodity_handler(Ctx(store, ledger, uuid), Current))

HandleTransaction ==
    /\ Folding /\ Current.kind = "Transaction"
    /\ Step(transaction_handler(Ctx(store, ledger, uuid), Current, Current.span))

HandleBalancePad ==
    /\ Folding /\ Current.kind = "BalancePad"
    /\ Step(balance_pad_handler(Ctx(store, ledger, uuid), Current))

HandleBalanceCheck ==
    /\ Folding /\ Current.kind = "BalanceCheck"
    /\ Step(balance_check_handler(Ctx(store, ledger, uuid), Current))

HandlePrice ==
    /\ Folding /\ Current.kind = "Price"
    /\ Step(price_handler(Ctx(store, ledger, uuid), Current))

\* Note, Event, Custom and every other kind: no store effect
HandleOther ==
    /\ Folding
    /\ Current.kind \notin {"Option", "Open", "Close", "Commodity", "Transaction",
                            "BalancePad", "BalanceCheck", "Price", "Document"}
    /\ Step(Ctx(store, ledger, uuid))

\* the ? behind a handler call: the handler returned Err, process returns
\* it and the ledger under construction is dropped
Propagate ==
    /\ Folding
    /\ Raises(Current)
    /\ pc' = "failed"
    /\ UNCHANGED <<input, merged_metas, directives, cursor, ledger, store, uuid, folded,
                   sort_in, sort_out, sort_twice, bal_txn, bal_result, answer>>

\* process, after the fold loop
Finish ==
    /\ pc = "fold"
    /\ cursor = Len(fold_order(merged_metas, directives))
    /\ ledger' = [ledger EXCEPT !.metas = merged_metas, !.directives = directives]
    /\ pc' = "done"
    /\ UNCHANGED <<input, merged_metas, directives, cursor, store, uuid, folded,
                   sort_in, sort_out, sort_twice, bal_txn, bal_result, answer>>

(* ---------------------------------------------------------------------- *)
(* Balance queries on the store of a processed ledger                     *)
(* ---------------------------------------------------------------------- *)
\* the accounts and the currencies the queries are asked for
Accounts == {"Assets:A", "Expenses:B", "Equity:Open"}
Currencies == {"USD", "CNY"}

\* naive_local().date(): the day a datetime falls in; a day holds two of
\* the model's datetimes
naive_date(dt) == (dt + 1) \div 2

\* the position the element at i takes in a stable sort by keys
StableRank(keys, i) ==
    1 + Cardinality({ j \in 1 .. Len(keys) :
                        keys[j] < keys[i] \/ (keys[j] = keys[i] /\ j < i) })

\* Itertools::sorted_by_key: the elements of s stably sorted by keys
sorted_by_key(s, keys) ==
    [r \in 1 .. Len(s) |-> s[CHOOSE i \in 1 .. Len(s) : StableRank(keys, i) = r]]

\* postings.sorted_by_key(|posting| posting.trx_datetime)
sorted_by_trx_datetime(ps) == sorted_by_key(ps, [i \in 1 .. Len(ps) |-> ps[i].trx_datetime])

\* ret.entry(currency).or_insert_with(BTreeMap::new), keeping the first
\* amount of a day
dated_amount_insert_keep_first(ret, posting) ==
    LET currency == posting.after_amount.currency
        date     == naive_date(posting.trx_datetime)
    IN  IF \E k \in 1 .. Len(ret) : ret[k].currency = currency
        THEN LET k == CHOOSE k \in 1 .. Len(ret) : ret[k].currency = currency
             IN  IF date \in DOMAIN ret[k].dated THEN ret
                 ELSE [ret EXCEPT ![k].dated = MapPut(@, date, posting.after_amount)]
        ELSE Append(ret, [currency |-> currency,
                          dated |-> MapPut(<< >>, date, posting.after_amount)])

\* ret.entry(currency).or_insert_with(BTreeMap::new).insert(date, after_amount)
\* on the IndexMap ret, a list of currencies in the order they were first seen
dated_amount_insert(ret, posting) ==
    LET currency == posting.after_amount.currency
        date     == naive_date(posting.trx_datetime)
    IN  IF \E k \in 1 .. Len(ret) : ret[k].currency = currency
        THEN LET k == CHOOSE k \in 1 .. Len(ret) : ret[k].currency = currency
             IN  [ret EXCEPT ![k].dated = MapPut(@, date, posting.after_amount)]
        ELSE Append(ret, [currency |-> currency,
                          dated |-> MapPut(<< >>, date, posting.after_amount)])

\* the for loop of the balance queries over the postings ps
RECURSIVE dated_amounts(_, _)
dated_amounts(ret, ps) ==
    IF ps = << >> THEN ret
    ELSE dated_amounts(dated_amount_insert(ret, Head(ps)), Tail(ps))

\* balance.pop_last() and the row built from it
pop_last_row(account, balance) ==
    LET date == CHOOSE d \in DOMAIN balance.dated : \A e \in DOMAIN balance.dated : e <= d
    IN  [date |-> date, account |-> account,
         balance_number |-> balance.dated[date].number,
         balance_commodity |-> balance.dated[date].currency]

\* Operations::single_account_balances
single_account_balances(st, account) ==
    LET ps  == sorted_by_trx_datetime(SelectSeq(st.postings, LAMBDA p : p.account = account))
        ret == dated_amounts(<< >>, ps)
    IN  [k \in 1 .. Len(ret) |-> pop_last_row(account, ret[k])]

\* account_target_date_balance that forgets the bound on trx_datetime
account_target_date_balance_unbounded(st, account, date) ==
    single_account_balances(st, account)

\* Operations::account_target_date_balance
account_target_date_balance(st, account, date) ==
    LET ps  == sorted_by_trx_datetime(
                   SelectSeq(st.postings, LAMBDA p : p.account = account /\ p.trx_datetime <= date))
        ret == dated_amounts(<< >>, ps)
    IN  [k \in 1 .. Len(ret) |-> pop_last_row(account, ret[k])]

\* the HTTP layer asks single_account_balances for an account
SingleAccountBalances ==
    /\ pc = "done"
    /\ answer' = [a \in Accounts |-> single_account_balances(store, a)]
    /\ pc' = "single_account_balances"
    /\ UNCHANGED <<input, merged_metas, directives, cursor, ledger, store, uuid, folded,
                   sort_in, sort_out, sort_twice, bal_txn, bal_result>>

\* ... asks account_target_date_balance for an account and a datetime
AccountTargetDateBalance ==
    /\ pc = "done"
    /\ answer' = [q \in Accounts \X Dates |-> account_target_date_balance(store, q[1], q[2])]
    /\ pc' = "account_target_date_balance"
    /\ UNCHANGED <<input, merged_metas, directives, cursor, ledger, store, uuid, folded,
                   sort_in, sort_out, sort_twice, bal_txn, bal_result>>

\* ... asks account_target_day_balance for an account, a datetime and a currency
AccountTargetDayBalance ==
    /\ pc = "done"
    /\ answer' = [q \in Accounts \X Dates \X Currencies |->
                     account_target_day_balance(store, q[1], q[2], q[3])]
    /\ pc' = "account_target_day_balance"
    /\ UNCHANGED <<input, merged_metas, directives, cursor, ledger, store, uuid, folded,
                   sort_in, sort_out, sort_twice, bal_txn, bal_result>>

(* ---------------------------------------------------------------------- *)
(* The directive streams the fold is run on                               *)
(* ---------------------------------------------------------------------- *)
MaxDirectives == 3   \* longest directive list handed to process

Posting(account, units) == [account |-> account, units |-> units]

Txn(date, postings) ==
    [kind |-> "Transaction", date |-> date, span |-> 0, flag |-> "None", postings |-> postings]

\* the posting lists of the transactions: balanced, with an elision slot,
\* and off by half a unit of the second fractional digit
Balanced == << Posting("Assets:A", SomeAmount(0 - 10, "USD")), Posting("Expenses:B", SomeAmount(10, "USD")) >>
WithElision == << Posting("Assets:A", SomeAmount(0 - 4, "USD")), Posting("Expenses:B", NoAmount) >>
OffByHalf == << Posting("Assets:A", SomeAmount(15, "USD")), Posting("Expenses:B", SomeAmount(0 - 10, "USD")) >>
InCNY == << Posting("Assets:A", SomeAmount(20, "CNY")), Posting("Expenses:B", NoAmount) >>

MetaUniverse ==
    { OptionDirective("title", "T1", 0),
      OptionDirective("title", "T2", 0),
      OptionDirective("default_rounding", "RoundUp", 0) }

DatedUniverse ==
    { [kind |-> "Open", date |-> 1, span |-> 0, account |-> "Assets:A"],
      [kind |-> "Close", date |-> MaxDate, span |-> 0, account |-> "Assets:A"],
      [kind |-> "Commodity", date |-> MaxDate, span |-> 0, name |-> "USD",
       precision |-> "3", rounding |-> "None"],
      [kind |-> "Price", date |-> 1, span |-> 0, name |-> "USD", amount |-> 7000, target |-> "CNY"],
      [kind |-> "Note", date |-> 1, span |-> 0],
      [kind |-> "BalanceCheck", date |-> MaxDate, span |-> 0, account |-> "Assets:A",
       amount |-> Amount(10, "USD")],
      Txn(1, Balanced) }
    \cup { Txn(dt, ps) : dt \in Dates, ps \in {WithElision, OffByHalf} }
    \cup { [kind |-> "BalancePad", date |-> dt, span |-> 0, account |-> "Assets:A",
            amount |-> Amount(10, "USD"), pad |-> "Equity:Open"] : dt \in Dates }

DirectiveUniverse == MetaUniverse \cup DatedUniverse

\* the parser gives the i-th directive of the stream the span i
WithSpans(ds) == [i \in 1 .. Len(ds) |-> [ds[i] EXCEPT !.span = i]]

\* s is a stream of at most n directives of the universe
IsStream(s, universe, n) ==
    \E k \in 0 .. n : \E ds \in [1 .. k -> universe] : s = WithSpans(ds)

Idle ==
    /\ sort_in = << >> /\ sort_out = << >> /\ sort_twice = << >>
    /\ bal_txn = << >> /\ bal_result = FALSE /\ answer = << >>

Init ==
    /\ pc = "load"
    /\ IsStream(input, DirectiveUniverse, MaxDirectives)
    /\ merged_metas = << >>
    /\ directives = << >>
    /\ cursor = 0
    /\ ledger = [options |-> InMemoryOptionsDefault, directives |-> << >>,
                 metas |-> << >>, trx_counter |-> 1]
    /\ store = EmptyStore
    /\ uuid = 0
    /\ folded = << >>
    /\ Idle

Next ==
    \/ Load
    \/ HandleOption
    \/ HandleOpen
    \/ HandleClose
    \/ HandleCommodity
    \/ HandleTransaction
    \/ HandleBalancePad
    \/ HandleBalanceCheck
    \/ HandlePrice
    \/ HandleOther
    \/ Finish

vars == <<pc, sort_in, sort_out, sort_twice, input, merged_metas, directives, cursor,
          ledger, store, uuid, folded, bal_txn, bal_result, answer>>

Spec == Init /\ [][Next]_vars

(* ---------------------------------------------------------------------- *)
(* The balance queries asked of a processed ledger                        *)
(* ---------------------------------------------------------------------- *)
\* the directives that put postings into the store: transactions in two
\* currencies and pads, at every datetime
QueryUniverse ==
    { Txn(dt, ps) : dt \in Dates, ps \in {WithElision, OffByHalf, InCNY} }
    \cup { [kind |-> "BalancePad", date |-> dt, span |-> 0, account |-> "Assets:A",
            amount |-> Amount(10, "USD"), pad |-> "Equity:Open"] : dt \in Dates }

QueryInit ==
    /\ pc = "load"
    /\ IsStream(input, QueryUniverse, MaxDirectives)
    /\ merged_metas = << >>
    /\ directives = << >>
    /\ cursor = 0
    /\ ledger = [options |-> InMemoryOptionsDefault, directives |-> << >>,
                 metas |-> << >>, trx_counter |-> 1]
    /\ store = EmptyStore
    /\ uuid = 0
    /\ folded = << >>
    /\ Idle

QueryNext ==
    \/ Load
    \/ HandleOption
    \/ HandleTransaction
    \/ HandleBalancePad
    \/ Finish
    \/ SingleAccountBalances
    \/ AccountTargetDateBalance
    \/ AccountTargetDayBalance

QuerySpec == QueryInit /\ [][QueryNext]_vars

(* ---------------------------------------------------------------------- *)
(* sort_directives_datetime called on its own                             *)
(* ---------------------------------------------------------------------- *)
\* the directives the sort is called on: two dated kinds, both balance
\* kinds, and a meta directive
SortUniverse ==
    { [kind |-> k, date |-> dt, span |-> 0] :
        k \in {"Open", "Transaction", "BalanceCheck", "BalancePad"}, dt \in Dates }
    \cup { [kind |-> "Option", date |-> NoDatetime, span |-> 0] }

NoLedger ==
    /\ input = << >> /\ merged_metas = << >> /\ directives = << >> /\ cursor = 0
    /\ ledger = [options |-> InMemoryOptionsDefault, directives |-> << >>,
                 metas |-> << >>, trx_counter |-> 1]
    /\ store = EmptyStore /\ uuid = 0 /\ folded = << >>

SortInit ==
    /\ pc = "sort"
    /\ IsStream(sort_in, SortUniverse, MaxSortLen)
    /\ sort_out = << >>
    /\ sort_twice = << >>
    /\ bal_txn = << >> /\ bal_result = FALSE /\ answer = << >>
    /\ NoLedger

\* sort_directives_datetime(sort_in)
SortOnce ==
    /\ pc = "sort"
    /\ sort_out' = sort_directives_datetime(sort_in)
    /\ pc' = "sorted"
    /\ UNCHANGED <<sort_in, sort_twice, input, merged_metas, directives, cursor,
                   ledger, store, uuid, folded, bal_txn, bal_result, answer>>

\* sort_directives_datetime applied to its own result
SortAgain ==
    /\ pc = "sorted"
    /\ sort_twice' = sort_directives_datetime(sort_out)
    /\ pc' = "resorted"
    /\ UNCHANGED <<sort_in, sort_out, input, merged_metas, directives, cursor,
                   ledger, store, uuid, folded, bal_txn, bal_result, answer>>

SortNext == SortOnce \/ SortAgain

SortSpec == SortInit /\ [][SortNext]_vars

(* ---------------------------------------------------------------------- *)
(* Properties of the canonical sort                                       *)
(* ---------------------------------------------------------------------- *)
AllDated(ds) == \A i \in 1 .. Len(ds) : datetime(ds[i]) # NoDatetime

\* how often x occurs in s
Occurrences(s, x) == Cardinality({ i \in 1 .. Len(s) : s[i] = x })

IsPermutation(s, t) ==
    /\ Len(s) = Len(t)
    /\ \A i \in 1 .. Len(s) : Occurrences(s, s[i]) = Occurrences(t, s[i])

Ascending(ds) ==
    \A i, j \in 1 .. Len(ds) : i < j => datetime(ds[i]) <= datetime(ds[j])

\* the index in ds of the directive that carries span sp
IndexOfSpan(ds, sp) == CHOOSE i \in 1 .. Len(ds) : ds[i].span = sp

IsBalance(d) == d.kind \in BalanceKinds

\* C1: for every list of dated directives the sort returns a permutation of
\* its input in which the datetimes are non-decreasing from first to last
C1_SortIsAscendingPermutation ==
    (pc \in {"sorted", "resorted"} /\ AllDated(sort_in))
        => /\ IsPermutation(sort_in, sort_out)
           /\ Ascending(sort_out)

\* the sort ran on a dated list that was out of order
C1_Witness ==
    /\ pc = "sorted"
    /\ AllDated(sort_in)
    /\ Len(sort_in) >= 3
    /\ ~Ascending(sort_in)
    /\ sort_out # sort_in

\* C3: two directives of equal datetime that are both balance directives, or
\* both not, leave the sort in the relative order they entered it
C3_SortIsStable ==
    (pc \in {"sorted", "resorted"} /\ AllDated(sort_in))
        => \A i, j \in 1 .. Len(sort_in) :
              ( /\ i < j
                /\ datetime(sort_in[i]) = datetime(sort_in[j])
                /\ IsBalance(sort_in[i]) = IsBalance(sort_in[j]) )
              => IndexOfSpan(sort_out, sort_in[i].span) < IndexOfSpan(sort_out, sort_in[j].span)

\* the sort moved directives while two directives of one class and of
\* different kinds shared a datetime
C3_Witness ==
    /\ pc = "sorted"
    /\ AllDated(sort_in)
    /\ sort_out # sort_in
    /\ \E i, j \in 1 .. Len(sort_in) :
          /\ i < j
          /\ datetime(sort_in[i]) = datetime(sort_in[j])
          /\ IsBalance(sort_in[i]) = IsBalance(sort_in[j])
          /\ sort_in[i].kind # sort_in[j].kind

\* C4: sorting the output of the sort again yields the same list
C4_SortIsIdempotent ==
    pc = "resorted" => sort_twice = sort_out

\* the second sort ran on a list the first sort had to reorder
C4_Witness ==
    /\ pc = "resorted"
    /\ sort_out # sort_in
    /\ Len(sort_out) >= 3
    /\ \E i, j \in 1 .. Len(sort_out) :
          i < j /\ datetime(sort_out[i]) = datetime(sort_out[j]) /\ datetime(sort_out[i]) # NoDatetime

(* ---------------------------------------------------------------------- *)
(* Properties of the fold order                                           *)
(* ---------------------------------------------------------------------- *)
\* in ds no directive of another kind stands before a balance directive of
\* the same datetime
BalanceFirst(ds) ==
    \A i, j \in 1 .. Len(ds) :
        ( /\ datetime(ds[i]) # NoDatetime
          /\ datetime(ds[i]) = datetime(ds[j])
          /\ IsBalance(ds[i])
          /\ ~IsBalance(ds[j]) )
        => i < j

\* C2: at equal datetime every BalanceCheck and BalancePad is placed, and
\* folded, before every directive of another kind, whatever the input order
C2_BalanceBeforeOther ==
    /\ BalanceFirst(directives)
    /\ BalanceFirst(folded)

\* the fold finished on an input that had a transaction in front of a
\* balance directive of the same datetime
C2_Witness ==
    /\ pc = "done"
    /\ \E i, j \in 1 .. Len(input) :
          /\ i < j
          /\ input[i].kind = "Transaction"
          /\ IsBalance(input[j])
          /\ input[i].date = input[j].date
    /\ Len(folded) = Len(default_options) + Len(input)

\* C5: every directive without a datetime is folded before any dated
\* directive, wherever it stands in the input
C5_MetaFoldedFirst ==
    \A i, j \in 1 .. Len(folded) :
        (datetime(folded[i]) = NoDatetime /\ datetime(folded[j]) # NoDatetime) => i < j

\* the fold finished on an input that had a dated directive in front of a
\* meta directive
C5_Witness ==
    /\ pc = "done"
    /\ \E i, j \in 1 .. Len(input) :
          i < j /\ datetime(input[i]) # NoDatetime /\ datetime(input[j]) = NoDatetime
    /\ \E i \in 1 .. Len(folded) : folded[i].span # 0 /\ datetime(folded[i]) = NoDatetime

(* ---------------------------------------------------------------------- *)
(* Properties of the options                                              *)
(* ---------------------------------------------------------------------- *)
\* the positions of the Option directives of key k in ds
OptionsOf(ds, k) == { i \in 1 .. Len(ds) : ds[i].kind = "Option" /\ ds[i].key = k }

Last(S) == CHOOSE i \in S : \A j \in S : j <= i

OptionKeys(ds) == { ds[i].key : i \in { j \in 1 .. Len(ds) : ds[j].kind = "Option" } }

\* C6: after a fold options[key] is the value of the last occurrence of the
\* key in the user's input, else the builtin default, else absent
C6_LastOptionWins ==
    pc = "done" =>
        /\ \A k \in OptionKeys(input) :
              /\ k \in DOMAIN store.options
              /\ store.options[k] = input[Last(OptionsOf(input, k))].value
        /\ \A k \in OptionKeys(default_options) \ OptionKeys(input) :
              /\ k \in DOMAIN store.options
              /\ store.options[k] = default_options[Last(OptionsOf(default_options, k))].value
        /\ DOMAIN store.options = OptionKeys(input) \cup OptionKeys(default_options)

\* the fold finished on an input that sets one key twice to different
\* values with another option in between, and overrides a builtin default
C6_Witness ==
    /\ pc = "done"
    /\ \E i, j, k \in 1 .. Len(input) :
          /\ i < j /\ j < k
          /\ input[i].kind = "Option" /\ input[j].kind = "Option" /\ input[k].kind = "Option"
          /\ input[i].key = input[k].key
          /\ input[i].value # input[k].value
          /\ input[j].key \in OptionKeys(default_options)

\* C7: the retained meta list holds at most one Option directive per key,
\* and the one kept is the last occurrence of the key in input order
C7_OneOptionPerKey ==
    pc = "done" =>
        \A k \in OptionKeys(input) :
            /\ Cardinality(OptionsOf(ledger.metas, k)) <= 1
            /\ \A i \in OptionsOf(ledger.metas, k) :
                  ledger.metas[i].span = input[Last(OptionsOf(input, k))].span

(* ---------------------------------------------------------------------- *)
(* Properties of the postings                                             *)
(* ---------------------------------------------------------------------- *)
Max(S) == CHOOSE x \in S : \A y \in S : y <= x

\* the balance of the account in the currency as of dt that the postings
\* ps show: the after_amount of the posting of the greatest datetime up to
\* dt, of those the one inserted last; zero when there is none
AsOfBalance(ps, account, currency, dt) ==
    LET M == { j \in 1 .. Len(ps) :
                 /\ ps[j].account = account
                 /\ ps[j].after_amount.currency = currency
                 /\ ps[j].trx_datetime <= dt }
    IN  IF M = {} THEN 0
        ELSE LET latest == Max({ ps[j].trx_datetime : j \in M })
             IN  ps[Max({ j \in M : ps[j].trx_datetime = latest })].after_amount.number

\* C10: for every posting after_amount = previous_amount + inferred_amount
\* in one currency, and previous_amount is the account's as-of balance at
\* the transaction's datetime in the store just before the posting went in
C10_PostingContinuity ==
    \A i \in 1 .. Len(store.postings) :
        LET p == store.postings[i]
        IN  /\ p.after_amount.number = p.previous_amount.number + p.inferred_amount.number
            /\ p.after_amount.currency = p.inferred_amount.currency
            /\ p.previous_amount.currency = p.inferred_amount.currency
            /\ p.previous_amount.number =
                  AsOfBalance(SubSeq(store.postings, 1, i - 1), p.account,
                              p.inferred_amount.currency, p.trx_datetime)

\* a posting went onto an account that already had a balance, after a pad
C10_Witness ==
    /\ pc = "done"
    /\ \E i \in 1 .. Len(store.postings) :
          /\ store.postings[i].previous_amount.number # 0
          /\ store.postings[i].inferred_amount.number # 0
          /\ store.postings[i].after_amount.number # 0
    /\ \E t \in DOMAIN store.transactions :
          /\ store.transactions[t].flag = "Completed"
          /\ \E i \in 1 .. Len(input) :
                input[i].kind = "BalancePad" /\ input[i].span = store.transactions[t].span

(* ---------------------------------------------------------------------- *)
(* Properties of the balance of a transaction                             *)
(* ---------------------------------------------------------------------- *)
\* n rounds to zero at the precision: it lies strictly within half a unit
\* of the last kept digit, or on the half that the rounding sends to zero
RoundsToZero(n, precision, is_up) ==
    IF precision >= Scale THEN n = 0
    ELSE LET u == Pow10(Scale - precision)
         IN  \/ (0 - u < 2 * n /\ 2 * n < u)
             \/ (2 * n = u /\ ~is_up)
             \/ (2 * n = 0 - u /\ is_up)

\* the precision and the rounding that apply to currency c given the
\* commodity table cs and the options opts
PrecisionFor(cs, opts, c) ==
    IF c \in DOMAIN cs THEN cs[c].precision ELSE opts.default_balance_tolerance_precision

RoundUpFor(cs, opts, c) ==
    IF c \in DOMAIN cs /\ cs[c].rounding # "None"
    THEN cs[c].rounding = "RoundUp"
    ELSE opts.default_rounding = "RoundUp"

\* the postings stored for transaction id
PostingsOf(st, id) == SelectSeq(st.postings, LAMBDA p : p.trx_id = id)

RECURSIVE InferredSum(_, _)
InferredSum(ps, c) ==
    IF ps = << >> THEN 0
    ELSE (IF Head(ps).inferred_amount.currency = c THEN Head(ps).inferred_amount.number ELSE 0)
         + InferredSum(Tail(ps), c)

\* every currency total of the stored postings of id rounds to zero under
\* the commodity table cs and the options opts
StoredBalanced(st, id, cs, opts) ==
    LET ps == PostingsOf(st, id)
    IN  \A c \in { ps[i].inferred_amount.currency : i \in 1 .. Len(ps) } :
            RoundsToZero(InferredSum(ps, c), PrecisionFor(cs, opts, c), RoundUpFor(cs, opts, c))

\* a TransactionNotBalanced error recorded for the directive of span sp
NotBalancedError(st, sp) ==
    \E i \in 1 .. Len(st.errors) :
        st.errors[i].error_type = "TransactionNotBalanced" /\ st.errors[i].span = sp

\* the number of postings the directive of span sp declares
DeclaredPostings(sp) == IF input[sp].kind = "Transaction" THEN Len(input[sp].postings) ELSE 2

\* C8: in every store every transaction is balanced under the
\* commodity's precision and rounding, or a TransactionNotBalanced error is
\* recorded; the transaction and its postings are stored either way
C8_ConservationInEveryStore ==
    \A id \in DOMAIN store.transactions :
        /\ \/ StoredBalanced(store, id, store.commodities, ledger.options)
           \/ NotBalancedError(store, store.transactions[id].span)
        /\ Len(PostingsOf(store, id)) = DeclaredPostings(store.transactions[id].span)

\* conservation at the moment of folding: a transaction being folded is
\* balanced under the precision and rounding the store holds just before,
\* or a TransactionNotBalanced error is recorded; the transaction and its
\* postings are stored either way
ConservationWhenFolded ==
    [][ \A id \in (DOMAIN store'.transactions) \ (DOMAIN store.transactions) :
            /\ \/ StoredBalanced(store', id, store.commodities, ledger.options)
               \/ NotBalancedError(store', store'.transactions[id].span)
            /\ Len(PostingsOf(store', id)) = DeclaredPostings(store'.transactions[id].span)
      ]_vars

\* an unbalanced transaction was stored with its error and its postings, and
\* a balanced one whose total is not exactly zero without an error
ConservationWhenFolded_Witness ==
    /\ pc = "done"
    /\ \E id \in DOMAIN store.transactions :
          /\ NotBalancedError(store, store.transactions[id].span)
          /\ Len(PostingsOf(store, id)) = 2
    /\ \E id \in DOMAIN store.transactions :
          /\ ~NotBalancedError(store, store.transactions[id].span)
          /\ \E c \in {"USD"} : InferredSum(PostingsOf(store, id), c) # 0

(* ---------------------------------------------------------------------- *)
(* is_transaction_balanced called on its own                              *)
(* ---------------------------------------------------------------------- *)
MaxPostings == 2   \* most postings of the transaction handed to is_transaction_balanced

\* the units a posting may declare: below and on half a unit of the digit
\* before the last, and on half a unit of the digit before that
UnitsUniverse ==
    {NoAmount} \cup { SomeAmount(n, c) : n \in {0 - 5, 4, 5, 5 * Pow10(Scale - 2)}, c \in Currencies }

CommodityUniverse ==
    [ precision : {Scale - 2, Scale - 1, Scale}, rounding : {"None", "RoundUp", "RoundDown"} ]

OptionsUniverse ==
    { [InMemoryOptionsDefault EXCEPT !.default_balance_tolerance_precision = p,
                                     !.default_rounding = r] :
        p \in {Scale - 2, Scale - 1, Scale}, r \in {"RoundUp", "RoundDown"} }

BalanceInit ==
    /\ pc = "call"
    /\ \E n \in 0 .. MaxPostings : \E us \in [1 .. n -> UnitsUniverse] :
          bal_txn = Txn(1, [i \in 1 .. n |-> Posting("Assets:A", us[i])])
    /\ bal_result = FALSE
    /\ \E declared \in SUBSET Currencies : \E cs \in [declared -> CommodityUniverse] :
          store = [EmptyStore EXCEPT !.commodities = cs]
    /\ \E opts \in OptionsUniverse :
          ledger = [options |-> opts, directives |-> << >>, metas |-> << >>, trx_counter |-> 1]
    /\ input = << >> /\ merged_metas = << >> /\ directives = << >> /\ cursor = 0
    /\ uuid = 0 /\ folded = << >>
    /\ sort_in = << >> /\ sort_out = << >> /\ sort_twice = << >>
    /\ answer = << >>

\* ledger.is_transaction_balanced(&bal_txn)
IsTransactionBalanced ==
    /\ pc = "call"
    /\ bal_result' = is_transaction_balanced(store, ledger.options, bal_txn)
    /\ pc' = "returned"
    /\ UNCHANGED <<sort_in, sort_out, sort_twice, input, merged_metas, directives, cursor,
                   ledger, store, uuid, folded, bal_txn, answer>>

BalanceNext == IsTransactionBalanced

BalanceSpec == BalanceInit /\ [][BalanceNext]_vars

\* the total of the declared units of txn in currency c after elision
TotalAfterElision(txn, c) ==
    IF \E i \in 1 .. Len(txn.postings) : ~txn.postings[i].units.some
    THEN 0
    ELSE DeclaredSum(txn, c, Len(txn.postings))

\* C9: is_transaction_balanced is true exactly when the inventory can be
\* computed and every currency total rounds to zero under the declared
\* commodity's precision and rounding, with the option defaults as fallback
C9_BalancedIffAllRoundToZero ==
    pc = "returned" =>
        bal_result =
            ( /\ Cardinality({ i \in 1 .. Len(bal_txn.postings) : ~bal_txn.postings[i].units.some }) <= 1
              /\ \A c \in Currencies :
                    (\E i \in 1 .. Len(bal_txn.postings) :
                        bal_txn.postings[i].units.some /\ bal_txn.postings[i].units.currency = c)
                    => RoundsToZero(TotalAfterElision(bal_txn, c),
                                    PrecisionFor(store.commodities, ledger.options, c),
                                    RoundUpFor(store.commodities, ledger.options, c)) )

\* a transaction was found balanced whose total in a declared currency is
\* a tie at the commodity's precision, settled by the default rounding, and
\* whose total in an undeclared currency is a tie at the default precision
C9_Witness ==
    /\ pc = "returned"
    /\ bal_result
    /\ DOMAIN store.commodities = {"USD"}
    /\ store.commodities["USD"].rounding = "None"
    /\ store.commodities["USD"].precision = Scale - 1
    /\ ledger.options.default_balance_tolerance_precision = Scale - 2
    /\ ledger.options.default_rounding = "RoundDown"
    /\ TotalAfterElision(bal_txn, "USD") = 5
    /\ TotalAfterElision(bal_txn, "CNY") = 5 * Pow10(Scale - 2)

(* ---------------------------------------------------------------------- *)
(* Properties of the sequence numbers                                     *)
(* ---------------------------------------------------------------------- *)
\* identifiers are drawn in fold order, so the header with the smaller
\* identifier was stored first
StoredBefore(id1, id2) == id1 < id2

\* C11: the sequence numbers of the stored headers are unique and grow in
\* fold order, the transactions synthesized by BalancePad included, and the
\* first header of a fold has the sequence 1
C11_SequenceUniqueAndIncreasing ==
    /\ \A id1, id2 \in DOMAIN store.transactions :
          StoredBefore(id1, id2)
              => store.transactions[id1].sequence < store.transactions[id2].sequence
    /\ \A id \in DOMAIN store.transactions :
          (\A other \in DOMAIN store.transactions : id <= other)
              => store.transactions[id].sequence = 1
    /\ pc \in {"fold", "done"}
          => ledger.trx_counter = 1 + Cardinality(DOMAIN store.transactions)

\* a fold stored a transaction synthesized by BalancePad between two
\* transactions of the input
C11_Witness ==
    /\ pc = "done"
    /\ \E id1, id2, id3 \in DOMAIN store.transactions :
          /\ id1 < id2 /\ id2 < id3
          /\ input[store.transactions[id1].span].kind = "Transaction"
          /\ input[store.transactions[id2].span].kind = "BalancePad"
          /\ input[store.transactions[id3].span].kind = "Transaction"

\* C12: the trx_sequence values of the postings, read in insertion order,
\* are strictly increasing
C12_PostingSequenceStrictlyIncreasing ==
    \A i, j \in 1 .. Len(store.postings) :
        i < j => store.postings[i].trx_sequence < store.postings[j].trx_sequence

\* C12, with the postings of one transaction sharing its sequence: the
\* trx_sequence values never decrease in insertion order, they are equal
\* for two postings of one transaction and strictly increasing from a
\* posting of one transaction to a later posting of another
C12_PostingSequenceMonotone ==
    \A i, j \in 1 .. Len(store.postings) :
        i < j =>
            IF store.postings[i].trx_id = store.postings[j].trx_id
            THEN store.postings[i].trx_sequence = store.postings[j].trx_sequence
            ELSE store.postings[i].trx_sequence < store.postings[j].trx_sequence

\* the postings of three transactions were stored, two for each
C12_Witness ==
    /\ pc = "done"
    /\ Len(store.postings) = 6
    /\ Cardinality({ store.postings[i].trx_id : i \in 1 .. Len(store.postings) }) = 3

(* ---------------------------------------------------------------------- *)
(* Properties of the balance queries                                      *)
(* ---------------------------------------------------------------------- *)
\* the postings of the account in the currency dated up to the bound
PostingsUpTo(account, currency, bound) ==
    { i \in 1 .. Len(store.postings) :
        /\ store.postings[i].account = account
        /\ store.postings[i].after_amount.currency = currency
        /\ store.postings[i].trx_datetime <= bound }

\* the postings of the account in the currency
PostingsIn(account, currency) == PostingsUpTo(account, currency, MaxDate)

\* the balances the latest-balance rule allows for the postings I: the
\* after_amount of a posting of greatest trx_datetime and, among those, of
\* greatest trx_sequence
LatestBalances(I) ==
    { store.postings[i].after_amount.number :
        i \in { i \in I : \A j \in I :
                  \/ store.postings[j].trx_datetime < store.postings[i].trx_datetime
                  \/ /\ store.postings[j].trx_datetime = store.postings[i].trx_datetime
                     /\ store.postings[j].trx_sequence <= store.postings[i].trx_sequence } }

\* rows holds one row for each currency the account has postings in up to
\* the bound, with a balance of the rule, and no other row
RowsFollowLatestRule(rows, account, bound) ==
    /\ \A k \in 1 .. Len(rows) :
          rows[k].balance_commodity \in Currencies /\ rows[k].account = account
    /\ \A c \in Currencies :
          LET I == PostingsUpTo(account, c, bound)
              R == { k \in 1 .. Len(rows) : rows[k].balance_commodity = c }
          IN  IF I = {} THEN R = {}
              ELSE /\ Cardinality(R) = 1
                   /\ \A k \in R : rows[k].balance_number \in LatestBalances(I)

\* C13: single_account_balances returns for each currency the account has a
\* posting in exactly one balance, the after_amount of the posting of
\* greatest trx_datetime and then greatest trx_sequence, and no row for a
\* currency without posting
C13_LatestBalancePerCurrency ==
    pc = "single_account_balances" =>
        \A a \in Accounts : RowsFollowLatestRule(answer[a], a, MaxDate)

\* an account with postings in two currencies, in one of them at two
\* datetimes, was asked for
C13_Witness ==
    /\ pc = "single_account_balances"
    /\ \E a \in Accounts :
          /\ Len(answer[a]) = 2
          /\ \E c \in Currencies : \E i, j \in PostingsIn(a, c) :
                /\ store.postings[i].trx_datetime < store.postings[j].trx_datetime
                /\ store.postings[i].after_amount # store.postings[j].after_amount
    /\ \E a \in Accounts : answer[a] = << >>

\* C14: the as-of balance queries answer by the latest-balance rule applied
\* to the postings dated up to the target, the target included, and
\* account_target_day_balance gives no amount when there is no such posting
C14_AsOfBalance ==
    /\ pc = "account_target_date_balance" =>
          \A q \in Accounts \X Dates : RowsFollowLatestRule(answer[q], q[1], q[2])
    /\ pc = "account_target_day_balance" =>
          \A q \in Accounts \X Dates \X Currencies :
              LET I == PostingsUpTo(q[1], q[3], q[2])
              IN  IF I = {} THEN ~answer[q].some
                  ELSE /\ answer[q].some
                       /\ answer[q].commodity = q[3]
                       /\ answer[q].number \in LatestBalances(I)

\* an account was asked at a target that leaves a later posting out: the
\* answers at the two targets differ, and one currency has no amount at the
\* earlier target and one at the later
C14_Witness ==
    /\ pc = "account_target_day_balance"
    /\ \E a \in Accounts, c \in Currencies :
          /\ answer[<<a, 1, c>>].some /\ answer[<<a, MaxDate, c>>].some
          /\ answer[<<a, 1, c>>].number # answer[<<a, MaxDate, c>>].number
    /\ \E a \in Accounts, c \in Currencies :
          ~answer[<<a, 1, c>>].some /\ answer[<<a, MaxDate, c>>].some

\* the same for account_target_date_balance
C14_WitnessDate ==
    /\ pc = "account_target_date_balance"
    /\ \E a \in Accounts : answer[<<a, 1>>] # answer[<<a, MaxDate>>] /\ answer[<<a, 1>>] # << >>

(* ---------------------------------------------------------------------- *)
(* Properties of the balance directives                                   *)
(* ---------------------------------------------------------------------- *)
\* the fold loop is at a directive of the kind
FoldingKind(kind) == Folding /\ Current.kind = kind

\* C15: folding BalancePad(date, account, expected, pad) with delta =
\* expected - actual adds one transaction dated date with flag Completed
\* and two postings, account: +delta and pad: -delta; afterwards the as-of
\* balance of the account at date is expected, and no error is recorded
C15_PadReachesExpected ==
    [][ FoldingKind("BalancePad") =>
          LET d      == Current
              c      == d.amount.currency
              actual == AsOfBalance(store.postings, d.account, c, d.date)
              delta  == d.amount.number - actual
              added  == (DOMAIN store'.transactions) \ (DOMAIN store.transactions)
              n      == Len(store.postings)
          IN  /\ Cardinality(added) = 1
              /\ \A id \in added :
                    /\ store'.transactions[id].datetime = d.date
                    /\ store'.transactions[id].flag = "Completed"
                    /\ Len(store'.postings) = n + 2
                    /\ SubSeq(store'.postings, 1, n) = store.postings
                    /\ store'.postings[n + 1].trx_id = id
                    /\ store'.postings[n + 2].trx_id = id
              /\ store'.postings[n + 1].account = d.account
              /\ store'.postings[n + 1].inferred_amount = Amount(delta, c)
              /\ store'.postings[n + 2].account = d.pad
              /\ store'.postings[n + 2].inferred_amount = Amount(0 - delta, c)
              /\ AsOfBalance(store'.postings, d.account, c, d.date) = d.amount.number
              /\ store'.errors = store.errors
      ]_vars

\* a pad was folded on an account that already had another balance, and no
\* error was recorded
C15_Witness ==
    /\ pc = "done"
    /\ store.errors = << >>
    /\ \E id \in DOMAIN store.transactions :
          /\ input[store.transactions[id].span].kind = "BalancePad"
          /\ \E i \in 1 .. Len(store.postings) :
                /\ store.postings[i].trx_id = id
                /\ store.postings[i].account = input[store.transactions[id].span].account
                /\ store.postings[i].previous_amount.number # 0
                /\ store.postings[i].inferred_amount.number # 0
                /\ store.postings[i].after_amount = input[store.transactions[id].span].amount

\* C16: folding a BalanceCheck changes no table of the store but errors; it
\* appends one AccountBalanceCheckError when actual - expected does not
\* round to zero under the commodity's precision and rounding, actual being
\* 0 without a posting up to the date, and appends nothing otherwise
C16_CheckOnlyAppendsError ==
    [][ FoldingKind("BalanceCheck") =>
          LET d      == Current
              c      == d.amount.currency
              actual == AsOfBalance(store.postings, d.account, c, d.date)
              n      == Len(store.errors)
          IN  /\ [store' EXCEPT !.errors = store.errors] = store
              /\ ledger' = ledger
              /\ IF RoundsToZero(actual - d.amount.number,
                                 PrecisionFor(store.commodities, ledger.options, c),
                                 RoundUpFor(store.commodities, ledger.options, c))
                 THEN store'.errors = store.errors
                 ELSE /\ Len(store'.errors) = n + 1
                      /\ SubSeq(store'.errors, 1, n) = store.errors
                      /\ store'.errors[n + 1].error_type = "AccountBalanceCheckError"
                      /\ store'.errors[n + 1].span = d.span
                      /\ store'.errors[n + 1].metas = [expected |-> d.amount.number,
                                                       actual |-> actual]
      ]_vars

\* two checks were folded on a store with postings, one found the balance
\* wrong and one found it right
C16_Witness ==
    /\ pc = "done"
    /\ Len(store.postings) > 0
    /\ Cardinality({ i \in 1 .. Len(folded) : folded[i].kind = "BalanceCheck" }) = 2
    /\ Cardinality({ i \in 1 .. Len(store.errors) :
                       store.errors[i].error_type = "AccountBalanceCheckError" }) = 1

(* ---------------------------------------------------------------------- *)
(* Price queries                                                          *)
(* ---------------------------------------------------------------------- *)
MaxPrices == 3   \* most Price directives folded before the prices are asked for

\* Option<PriceDomain>
SomePrice(price) == [some |-> TRUE, price |-> price]
NoPrice == [some |-> FALSE]

\* prices.sorted_by(|a, b| a.datetime.cmp(&b.datetime))
sorted_by_datetime(ps) == sorted_by_key(ps, [i \in 1 .. Len(ps) |-> ps[i].datetime])

\* get_price that takes the last price of the sorted candidates
get_price_next_back(st, date, from, to) ==
    LET x == sorted_by_datetime(SelectSeq(st.prices, LAMBDA price :
                 /\ price.commodity = from
                 /\ price.target_commodity = to
                 /\ price.datetime <= date))
    IN  IF x = << >> THEN NoPrice ELSE SomePrice(x[Len(x)])

\* Operations::get_price
get_price(st, date, from, to) ==
    LET x == sorted_by_datetime(SelectSeq(st.prices, LAMBDA price :
                 /\ price.commodity = from
                 /\ price.target_commodity = to
                 /\ price.datetime <= date))
    IN  IF x = << >> THEN NoPrice ELSE SomePrice(x[1])

\* get_latest_price that takes the first price of the sorted candidates
get_latest_price_next(st, from, to) ==
    LET x == sorted_by_datetime(SelectSeq(st.prices, LAMBDA price :
                 price.commodity = from /\ price.target_commodity = to))
    IN  IF x = << >> THEN NoPrice ELSE SomePrice(x[1])

\* Operations::get_latest_price
get_latest_price(st, from, to) ==
    LET x == sorted_by_datetime(SelectSeq(st.prices, LAMBDA price :
                 price.commodity = from /\ price.target_commodity = to))
    IN  IF x = << >> THEN NoPrice ELSE SomePrice(x[Len(x)])

\* the pairs and the rates of the Price directives, and the pairs asked for
PricePairs == { pair \in Currencies \X Currencies : pair[1] # pair[2] }
PriceAmounts == {7, 8}

PriceInit ==
    /\ pc = "prices"
    /\ NoLedger
    /\ Idle

\* the fold reaches a Price directive; the directives come sorted by
\* datetime, so no price is older than the ones before it
InsertPrice ==
    /\ pc = "prices"
    /\ Len(store.prices) < MaxPrices
    /\ \E dt \in Dates, pair \in PricePairs, amount \in PriceAmounts :
          /\ store.prices # << >> => store.prices[Len(store.prices)].datetime <= dt
          /\ store' = insert_price(store, dt, pair[1], amount, pair[2])
    /\ UNCHANGED <<pc, input, merged_metas, directives, cursor, ledger, uuid, folded,
                   sort_in, sort_out, sort_twice, bal_txn, bal_result, answer>>

\* get_price asked for a datetime and a pair
GetPrice ==
    /\ pc = "prices"
    /\ answer' = [q \in (0 .. MaxDate) \X PricePairs |-> get_price(store, q[1], q[2][1], q[2][2])]
    /\ pc' = "get_price"
    /\ UNCHANGED <<input, merged_metas, directives, cursor, ledger, store, uuid, folded,
                   sort_in, sort_out, sort_twice, bal_txn, bal_result>>

\* get_latest_price asked for a pair
GetLatestPrice ==
    /\ pc = "prices"
    /\ answer' = [q \in PricePairs |-> get_latest_price(store, q[1], q[2])]
    /\ pc' = "get_latest_price"
    /\ UNCHANGED <<input, merged_metas, directives, cursor, ledger, store, uuid, folded,
                   sort_in, sort_out, sort_twice, bal_txn, bal_result>>

PriceNext == InsertPrice \/ GetPrice \/ GetLatestPrice

PriceSpec == PriceInit /\ [][PriceNext]_vars

\* the stored prices of the pair dated up to the bound
PricesUpTo(from, to, bound) ==
    { i \in 1 .. Len(store.prices) :
        /\ store.prices[i].commodity = from
        /\ store.prices[i].target_commodity = to
        /\ store.prices[i].datetime <= bound }

\* C17: get_price(at, from, to) returns a price of the pair (from, to) dated
\* up to at of the least datetime among them, and none when there is no
\* such price; never a price of the inverse pair or one dated after at
C17_GetPriceEarliest ==
    pc = "get_price" =>
        \A q \in (0 .. MaxDate) \X PricePairs :
            LET M == PricesUpTo(q[2][1], q[2][2], q[1])
            IN  IF M = {} THEN answer[q] = NoPrice
                ELSE /\ answer[q].some
                     /\ \E i \in M :
                           /\ answer[q].price = store.prices[i]
                           /\ \A j \in M : store.prices[i].datetime <= store.prices[j].datetime

\* get_price chose the earlier of two prices of a pair while a price of the
\* inverse pair was stored, and found none at a target before the pair's
\* first price
C17_Witness ==
    /\ pc = "get_price"
    /\ \E q \in (0 .. MaxDate) \X PricePairs :
          /\ answer[q].some
          /\ \E i \in PricesUpTo(q[2][1], q[2][2], q[1]) :
                store.prices[i].datetime > answer[q].price.datetime
          /\ PricesUpTo(q[2][2], q[2][1], q[1]) # {}
    /\ \E q \in (1 .. MaxDate) \X PricePairs :
          /\ answer[q] = NoPrice
          /\ PricesUpTo(q[2][1], q[2][2], MaxDate) # {}

\* C18: get_latest_price(from, to) returns the price of the pair of the
\* greatest datetime, of several such the one inserted last, and none when
\* the pair has no price
C18_GetLatestPrice ==
    pc = "get_latest_price" =>
        \A q \in PricePairs :
            LET M == PricesUpTo(q[1], q[2], MaxDate)
            IN  IF M = {} THEN answer[q] = NoPrice
                ELSE /\ answer[q].some
                     /\ \E i \in M :
                           /\ answer[q].price = store.prices[i]
                           /\ \A j \in M :
                                 \/ store.prices[j].datetime < store.prices[i].datetime
                                 \/ store.prices[j].datetime = store.prices[i].datetime /\ j <= i

\* get_latest_price chose among two prices of the greatest datetime, with
\* an older price of the pair stored, and found none for the inverse pair
C18_Witness ==
    /\ pc = "get_latest_price"
    /\ \E q \in PricePairs :
          /\ answer[q].some
          /\ \E i, j, k \in PricesUpTo(q[1], q[2], MaxDate) :
                /\ i < j
                /\ store.prices[i].datetime = store.prices[j].datetime
                /\ store.prices[i].amount # store.prices[j].amount
                /\ answer[q].price = store.prices[j]
                /\ store.prices[k].datetime < store.prices[j].datetime
          /\ answer[<<q[2], q[1]>>] = NoPrice

(* ---------------------------------------------------------------------- *)
(* Commodity lots                                                         *)
(* ---------------------------------------------------------------------- *)
MaxLots == 3   \* most lots held by all accounts together

\* CommodityLotRecord; the model leaves datetime, always None, out
Lot(currency, amount, price) == [commodity |-> currency, amount |-> amount, price |-> price]

\* Option<CommodityLotRecord>
SomeLot(lot) == [some |-> TRUE, lot |-> lot]
NoLot == [some |-> FALSE]

\* commodity_lots.entry(account).or_insert_with(Vec::new)
entry_or_insert(st, account) ==
    IF account \in DOMAIN st.commodity_lots THEN st
    ELSE [st EXCEPT !.commodity_lots = MapPut(@, account, << >>)]

\* Iterator::find: the first of the positions K that satisfy the predicate,
\* 0 when there is none
FindFirst(K) == IF K = {} THEN 0 ELSE CHOOSE k \in K : \A j \in K : k <= j

\* Operations::account_lot: the store, which gains the entry of the
\* account, and the lot found
account_lot(st, account, currency, price) ==
    LET st1   == entry_or_insert(st, account)
        entry == st1.commodity_lots[account]
        k     == FindFirst({ i \in 1 .. Len(entry) : entry[i].commodity = currency /\ entry[i].price = price })
    IN  [store |-> st1, lot |-> IF k = 0 THEN NoLot ELSE SomeLot(entry[k])]

\* account_lot_fifo that does not look at the price of a lot
account_lot_fifo_any_price(st, account, currency, price_commodity) ==
    LET st1   == entry_or_insert(st, account)
        entry == st1.commodity_lots[account]
        k     == FindFirst({ i \in 1 .. Len(entry) : entry[i].commodity = currency })
    IN  [store |-> st1, lot |-> IF k = 0 THEN NoLot ELSE SomeLot(entry[k])]

\* Operations::account_lot_fifo
account_lot_fifo(st, account, currency, price_commodity) ==
    LET st1   == entry_or_insert(st, account)
        entry == st1.commodity_lots[account]
        k     == FindFirst({ i \in 1 .. Len(entry) :
                     /\ entry[i].commodity = currency
                     /\ entry[i].price.some
                     /\ entry[i].price.currency = price_commodity })
    IN  [store |-> st1, lot |-> IF k = 0 THEN NoLot ELSE SomeLot(entry[k])]

\* Operations::update_account_lot
update_account_lot(st, account, currency, price, amount) ==
    LET st1   == entry_or_insert(st, account)
        entry == st1.commodity_lots[account]
        k     == FindFirst({ i \in 1 .. Len(entry) : entry[i].price = price })
    IN  IF k # 0
        THEN [st1 EXCEPT !.commodity_lots[account][k].amount = amount]
        ELSE [st1 EXCEPT !.commodity_lots[account] = Append(@, Lot(currency, amount, price))]

\* Operations::insert_account_lot
insert_account_lot(st, account, currency, price, amount) ==
    LET st1 == entry_or_insert(st, account)
    IN  [st1 EXCEPT !.commodity_lots[account] = Append(@, Lot(currency, amount, price))]

\* the accounts, commodities, costs and amounts of the lots
LotAccounts == {"Assets:A", "Assets:B"}
LotCommodities == {"AAPL", "GOOG"}
LotPrices == {NoAmount, SomeAmount(1, "USD"), SomeAmount(2, "USD")}
LotAmounts == {1, 2}

\* the lots of the account, none when it has no entry
LotsOf(st, account) ==
    IF account \in DOMAIN st.commodity_lots THEN st.commodity_lots[account] ELSE << >>

RECURSIVE TotalLots(_, _)
TotalLots(st, accounts) ==
    IF accounts = {} THEN 0
    ELSE LET a == CHOOSE a \in accounts : TRUE
         IN  Len(LotsOf(st, a)) + TotalLots(st, accounts \ {a})

LotInit ==
    /\ pc = "lots"
    /\ NoLedger
    /\ Idle

\* a posting acquires a commodity at a cost the account holds no lot of:
\* account_lot finds none and the lot is inserted
InsertAccountLot ==
    /\ pc = "lots"
    /\ TotalLots(store, LotAccounts) < MaxLots
    /\ \E a \in LotAccounts, c \in LotCommodities, p \in LotPrices :
          /\ ~account_lot(store, a, c, p).lot.some
          /\ store' = insert_account_lot(store, a, c, p, 1)
    /\ UNCHANGED <<pc, input, merged_metas, directives, cursor, ledger, uuid, folded,
                   sort_in, sort_out, sort_twice, bal_txn, bal_result, answer>>

\* update_account_lot called with an account, a commodity, a cost and the
\* new amount
UpdateAccountLot ==
    /\ pc = "lots"
    /\ \E a \in LotAccounts, c \in LotCommodities, p \in LotPrices, n \in LotAmounts :
          /\ store' = update_account_lot(store, a, c, p, n)
          /\ TotalLots(store', LotAccounts) <= MaxLots
    /\ UNCHANGED <<pc, input, merged_metas, directives, cursor, ledger, uuid, folded,
                   sort_in, sort_out, sort_twice, bal_txn, bal_result, answer>>

\* account_lot_fifo asked for an account, per commodity and price commodity
AccountLotFifo ==
    /\ pc = "lots"
    /\ \E a \in LotAccounts :
          /\ answer' = [account |-> a,
                        lot |-> [q \in LotCommodities \X Currencies |->
                                    account_lot_fifo(store, a, q[1], q[2]).lot]]
          /\ store' = entry_or_insert(store, a)
    /\ pc' = "account_lot_fifo"
    /\ UNCHANGED <<input, merged_metas, directives, cursor, ledger, uuid, folded,
                   sort_in, sort_out, sort_twice, bal_txn, bal_result>>

LotNext == InsertAccountLot \/ UpdateAccountLot \/ AccountLotFifo

LotSpec == LotInit /\ [][LotNext]_vars

\* C19: update_account_lot(account, commodity, price, amount) sets the
\* amount of the lot of the account whose commodity and price match and of
\* no other lot, or appends a new lot when none matches; lots of another
\* commodity keep their amount also when their price equals price
C19_UpdateTouchesOnlyMatchingLot ==
    [][ \A a \in LotAccounts, c \in LotCommodities, p \in LotPrices, n \in LotAmounts :
          (pc = "lots" /\ pc' = "lots" /\ store' = update_account_lot(store, a, c, p, n)) =>
              LET old == LotsOf(store, a)
                  new == LotsOf(store', a)
                  k   == FindFirst({ i \in 1 .. Len(old) : old[i].commodity = c /\ old[i].price = p })
              IN  /\ IF k # 0 THEN new = [old EXCEPT ![k].amount = n]
                      ELSE new = Append(old, Lot(c, n, p))
                  /\ \A b \in LotAccounts \ {a} : LotsOf(store', b) = LotsOf(store, b)
      ]_vars

\* C20: account_lot_fifo(account, commodity, price_commodity) returns the
\* first lot in insertion order of the account with that commodity and a
\* price in that currency, none when no lot matches; never a lot without
\* price or a lot of another account
C20_FifoFirstMatchingLot ==
    pc = "account_lot_fifo" =>
        \A q \in LotCommodities \X Currencies :
            LET lots == LotsOf(store, answer.account)
                M == { k \in 1 .. Len(lots) :
                         /\ lots[k].commodity = q[1]
                         /\ lots[k].price.some
                         /\ lots[k].price.currency = q[2] }
            IN  IF M = {} THEN answer.lot[q] = NoLot
                ELSE /\ answer.lot[q].some
                     /\ \E k \in M : answer.lot[q].lot = lots[k] /\ \A j \in M : k <= j

\* the account asked holds a lot without price in front of two priced lots
\* of the commodity and got the first priced one
C20_Witness ==
    /\ pc = "account_lot_fifo"
    /\ \E q \in LotCommodities \X Currencies :
          LET lots == LotsOf(store, answer.account)
          IN  /\ Len(lots) = 3
              /\ \A k \in 1 .. 3 : lots[k].commodity = q[1]
              /\ ~lots[1].price.some
              /\ answer.lot[q] = SomeLot(lots[2])

\* the account asked holds no lot of the commodity while another account
\* does, and got none
C20_WitnessOtherAccount ==
    /\ pc = "account_lot_fifo"
    /\ \E q \in LotCommodities \X Currencies : \E b \in LotAccounts \ {answer.account} :
          /\ answer.lot[q] = NoLot
          /\ \E k \in 1 .. Len(LotsOf(store, b)) :
                /\ LotsOf(store, b)[k].commodity = q[1]
                /\ LotsOf(store, b)[k].price.some
                /\ LotsOf(store, b)[k].price.currency = q[2]

(* ---------------------------------------------------------------------- *)
(* Commodity balances                                                     *)
(* ---------------------------------------------------------------------- *)
\* lots.iter().filter(|lot| lot.commodity.eq(commodity)).map(|it| &it.amount).sum()
RECURSIVE account_sum(_, _)
account_sum(lots, currency) ==
    IF lots = << >> THEN 0
    ELSE (IF Head(lots).commodity = currency THEN Head(lots).amount ELSE 0)
         + account_sum(Tail(lots), currency)

\* the loop adding the lots of every account, whatever its type
RECURSIVE commodity_balances_all_accounts(_, _, _)
commodity_balances_all_accounts(st, accounts, currency) ==
    IF accounts = {} THEN 0
    ELSE LET account == CHOOSE a \in accounts : TRUE
         IN  account_sum(st.commodity_lots[account], currency)
             + commodity_balances_all_accounts(st, accounts \ {account}, currency)

\* the loop of get_commodity_balances over the entries of commodity_lots
\* still to visit
RECURSIVE commodity_balances(_, _, _)
commodity_balances(st, accounts, currency) ==
    IF accounts = {} THEN 0
    ELSE LET account == CHOOSE a \in accounts : TRUE
         IN  (IF AccountType(account) = "Assets" \/ AccountType(account) = "Liabilities"
              THEN account_sum(st.commodity_lots[account], currency)
              ELSE 0)
             + commodity_balances(st, accounts \ {account}, currency)

\* get_commodity_balances without the test of the account type
get_commodity_balances_all_accounts(st, currency) ==
    commodity_balances_all_accounts(st, DOMAIN st.commodity_lots, currency)

\* Operations::get_commodity_balances
get_commodity_balances(st, currency) ==
    commodity_balances(st, DOMAIN st.commodity_lots, currency)

MaxHoldings == 4   \* most lots held by the accounts of all types together

\* one account of each type, and the amounts of their lots
HoldingAccounts == {"Assets:A", "Liabilities:C", "Equity:Open", "Income:D", "Expenses:B"}
HoldingAmounts == {0 - 1, 2}

HoldingInit ==
    /\ pc = "holdings"
    /\ NoLedger
    /\ Idle

\* a posting puts a lot into an account
InsertHoldingLot ==
    /\ pc = "holdings"
    /\ TotalLots(store, HoldingAccounts) < MaxHoldings
    /\ \E a \in HoldingAccounts, c \in LotCommodities, n \in HoldingAmounts :
          store' = insert_account_lot(store, a, c, NoAmount, n)
    /\ UNCHANGED <<pc, input, merged_metas, directives, cursor, ledger, uuid, folded,
                   sort_in, sort_out, sort_twice, bal_txn, bal_result, answer>>

\* account_lot looks a lot up and leaves an entry without lots behind
LookupHoldingLot ==
    /\ pc = "holdings"
    /\ \E a \in HoldingAccounts, c \in LotCommodities :
          store' = account_lot(store, a, c, NoAmount).store
    /\ UNCHANGED <<pc, input, merged_metas, directives, cursor, ledger, uuid, folded,
                   sort_in, sort_out, sort_twice, bal_txn, bal_result, answer>>

\* get_commodity_balances asked per commodity
GetCommodityBalances ==
    /\ pc = "holdings"
    /\ answer' = [c \in LotCommodities |-> get_commodity_balances(store, c)]
    /\ pc' = "get_commodity_balances"
    /\ UNCHANGED <<input, merged_metas, directives, cursor, ledger, store, uuid, folded,
                   sort_in, sort_out, sort_twice, bal_txn, bal_result>>

HoldingNext == InsertHoldingLot \/ LookupHoldingLot \/ GetCommodityBalances

HoldingSpec == HoldingInit /\ [][HoldingNext]_vars

\* the lots, as account and position, of the commodity held by accounts of
\* the types
HeldLots(currency, types) ==
    { h \in HoldingAccounts \X (1 .. MaxHoldings) :
        /\ AccountType(h[1]) \in types
        /\ h[2] <= Len(LotsOf(store, h[1]))
        /\ LotsOf(store, h[1])[h[2]].commodity = currency }

RECURSIVE SumOfLots(_)
SumOfLots(H) ==
    IF H = {} THEN 0
    ELSE LET h == CHOOSE h \in H : TRUE
         IN  LotsOf(store, h[1])[h[2]].amount + SumOfLots(H \ {h})

\* C21: get_commodity_balances(commodity) is the sum of the amounts of the
\* lots of the commodity held by Assets and Liabilities accounts, zero when
\* there is none; lots of Equity, Income and Expenses accounts and lots of
\* other commodities do not count
C21_CommodityBalances ==
    pc = "get_commodity_balances" =>
        \A c \in LotCommodities :
            answer[c] = SumOfLots(HeldLots(c, {"Assets", "Liabilities"}))

\* a commodity held by an Assets and a Liabilities account and by an account
\* of another type got a total that is not zero, while another commodity
\* held only outside Assets and Liabilities got zero
C21_Witness ==
    /\ pc = "get_commodity_balances"
    /\ \E c, d \in LotCommodities :
          /\ HeldLots(c, {"Assets"}) # {}
          /\ HeldLots(c, {"Liabilities"}) # {}
          /\ HeldLots(c, {"Equity", "Income", "Expenses"}) # {}
          /\ answer[c] # 0
          /\ HeldLots(d, {"Assets", "Liabilities"}) = {}
          /\ HeldLots(d, {"Equity", "Income", "Expenses"}) # {}
          /\ answer[d] = 0

(* ---------------------------------------------------------------------- *)
(* Metas                                                                  *)
(* ---------------------------------------------------------------------- *)
MaxMetas == 3   \* most entries of the metas table

\* ZhangString::to_plain_string: the text without its quoting
to_plain_string(v) == v.text

\* MetaDomain
MetaDomain(type_, type_identifier, key, value) ==
    [meta_type |-> type_, type_identifier |-> type_identifier, key |-> key, value |-> value]

\* the body of the loop of insert_meta that pushes without looking the key up
insert_meta_pair_push(metas, type_, type_identifier, meta_key, meta_value) ==
    Append(metas, MetaDomain(type_, type_identifier, meta_key, to_plain_string(meta_value)))

\* the body of the loop of insert_meta, for one pair of the flattened Meta
insert_meta_pair(metas, type_, type_identifier, meta_key, meta_value) ==
    LET k == FindFirst({ i \in 1 .. Len(metas) :
                 /\ metas[i].type_identifier = type_identifier
                 /\ metas[i].meta_type = type_
                 /\ metas[i].key = meta_key })
    IN  IF k # 0
        THEN [metas EXCEPT ![k].value = to_plain_string(meta_value)]
        ELSE Append(metas, MetaDomain(type_, type_identifier, meta_key, to_plain_string(meta_value)))

\* the loop of insert_meta over meta.get_flatten()
RECURSIVE insert_meta_pairs(_, _, _, _)
insert_meta_pairs(metas, type_, type_identifier, flatten) ==
    IF flatten = << >> THEN metas
    ELSE insert_meta_pairs(
             insert_meta_pair(metas, type_, type_identifier, Head(flatten)[1], Head(flatten)[2]),
             type_, type_identifier, Tail(flatten))

\* Operations::insert_meta
insert_meta(st, type_, type_identifier, flatten) ==
    [st EXCEPT !.metas = insert_meta_pairs(@, type_, type_identifier, flatten)]

\* what the metas are attached to, as meta type and identifier, and the
\* keys and the values of the calls
MetaTargets == { <<"AccountMeta", "Assets:A">>, <<"CommodityMeta", "USD">> }
MetaKeys == {"k1", "k2"}
MetaValues == { [quoted |-> TRUE, text |-> "v1"], [quoted |-> FALSE, text |-> "v2"] }

\* Meta::get_flatten: no pair, one pair, or two pairs, of one key or of two
Flattens ==
    { << >> }
    \cup { <<p>> : p \in MetaKeys \X MetaValues }
    \cup { <<p, q>> : p \in MetaKeys \X MetaValues, q \in MetaKeys \X MetaValues }

MetaInit ==
    /\ pc = "metas"
    /\ NoLedger
    /\ Idle

\* insert_meta called by a handler; answer keeps the arguments of the call
InsertMeta ==
    /\ pc = "metas"
    /\ \E target \in MetaTargets, f \in Flattens :
          /\ store' = insert_meta(store, target[1], target[2], f)
          /\ Len(store'.metas) <= MaxMetas
          /\ answer' = [meta_type |-> target[1], type_identifier |-> target[2], flatten |-> f]
    /\ UNCHANGED <<pc, input, merged_metas, directives, cursor, ledger, uuid, folded,
                   sort_in, sort_out, sort_twice, bal_txn, bal_result>>

\* Operations::metas asked for a type and an identifier
Metas ==
    /\ pc = "metas"
    /\ answer' = [q \in MetaTargets |->
                     SelectSeq(store.metas, LAMBDA meta :
                         meta.meta_type = q[1] /\ meta.type_identifier = q[2])]
    /\ pc' = "read_metas"
    /\ UNCHANGED <<input, merged_metas, directives, cursor, ledger, store, uuid, folded,
                   sort_in, sort_out, sort_twice, bal_txn, bal_result>>

MetaNext == InsertMeta \/ Metas

MetaSpec == MetaInit /\ [][MetaNext]_vars

\* the key of an entry of the metas table
MetaKeyOf(m) == <<m.meta_type, m.type_identifier, m.key>>

\* no two entries of the table have the same key
UniqueMetaKeys(metas) ==
    \A i, j \in 1 .. Len(metas) : MetaKeyOf(metas[i]) = MetaKeyOf(metas[j]) => i = j

\* the positions of the pairs of key in the flattened Meta
PairsOf(f, key) == { i \in 1 .. Len(f) : f[i][1] = key }

\* C22: the metas table never holds two entries of one (meta_type,
\* type_identifier, key); an insert_meta call keeps every entry at its
\* position with its key, changes the value of an entry only when its key is
\* inserted, to the last value given for the key, and appends one entry for
\* each inserted key that was absent
C22_MetaUpsert ==
    [][ (pc = "metas" /\ pc' = "metas") =>
          LET old == store.metas
              new == store'.metas
              f   == answer'.flatten
              Inserted(m) == /\ m.meta_type = answer'.meta_type
                             /\ m.type_identifier = answer'.type_identifier
                             /\ PairsOf(f, m.key) # {}
          IN  /\ UniqueMetaKeys(new)
              /\ Len(new) >= Len(old)
              /\ \A i \in 1 .. Len(old) :
                    /\ MetaKeyOf(new[i]) = MetaKeyOf(old[i])
                    /\ ~Inserted(old[i]) => new[i] = old[i]
              /\ \A i \in 1 .. Len(new) :
                    Inserted(new[i]) =>
                        new[i].value = f[Max(PairsOf(f, new[i].key))][2].text
              /\ \A i \in Len(old) + 1 .. Len(new) : Inserted(new[i])
              /\ \A k \in 1 .. Len(f) : \E i \in 1 .. Len(new) :
                    MetaKeyOf(new[i]) = <<answer'.meta_type, answer'.type_identifier, f[k][1]>>
      ]_vars

\* an insert_meta call gave a key twice that the table already held in
\* front of another entry: the entry got the last value in place
C22_Witness ==
    /\ pc = "metas"
    /\ answer # << >>
    /\ Len(answer.flatten) = 2
    /\ answer.flatten[1][1] = answer.flatten[2][1]
    /\ answer.flatten[1][2] # answer.flatten[2][2]
    /\ Len(store.metas) = MaxMetas
    /\ MetaKeyOf(store.metas[1]) = <<answer.meta_type, answer.type_identifier, answer.flatten[1][1]>>
    /\ store.metas[1].value = answer.flatten[2][2].text
    /\ \E i \in 2 .. MaxMetas :
          /\ store.metas[i].meta_type # answer.meta_type
          /\ store.metas[i].key = answer.flatten[1][1]

(* ---------------------------------------------------------------------- *)
(* Accounts                                                               *)
(* ---------------------------------------------------------------------- *)
\* AccountStatus, and the aliases an Open directive gives
AccountStatuses == {"Open", "Close"}
Aliases == {"None", "cash"}

AccountInit ==
    /\ pc = "accounts"
    /\ NoLedger
    /\ Idle

\* insert_or_update_account called with a datetime, an account, a status and
\* an alias; answer keeps the call
InsertOrUpdateAccount ==
    /\ pc = "accounts"
    /\ \E dt \in Dates, a \in Accounts, status \in AccountStatuses, alias \in Aliases :
          /\ store' = insert_or_update_account(store, dt, a, status, alias)
          /\ answer' = [op |-> "insert_or_update_account", account |-> a, datetime |-> dt,
                        status |-> status, alias |-> alias]
    /\ UNCHANGED <<pc, input, merged_metas, directives, cursor, ledger, uuid, folded,
                   sort_in, sort_out, sort_twice, bal_txn, bal_result>>

\* close_account called with an account; answer keeps the call
CloseAccount ==
    /\ pc = "accounts"
    /\ \E a \in Accounts :
          /\ store' = close_account(store, a)
          /\ answer' = [op |-> "close_account", account |-> a, datetime |-> NoDatetime,
                        status |-> "Close", alias |-> "None"]
    /\ UNCHANGED <<pc, input, merged_metas, directives, cursor, ledger, uuid, folded,
                   sort_in, sort_out, sort_twice, bal_txn, bal_result>>

\* Operations::all_open_accounts
AllOpenAccounts ==
    /\ pc = "accounts"
    /\ answer' = { a \in DOMAIN store.accounts : store.accounts[a].status = "Open" }
    /\ pc' = "all_open_accounts"
    /\ UNCHANGED <<input, merged_metas, directives, cursor, ledger, store, uuid, folded,
                   sort_in, sort_out, sort_twice, bal_txn, bal_result>>

AccountNext == InsertOrUpdateAccount \/ CloseAccount \/ AllOpenAccounts

AccountSpec == AccountInit /\ [][AccountNext]_vars

\* the two stores differ in the accounts table at most
SameButAccounts(st1, st2) == [st1 EXCEPT !.accounts = << >>] = [st2 EXCEPT !.accounts = << >>]

\* C23: insert_or_update_account on an account the table holds changes its
\* status and nothing else of it, on a new account it records the given
\* date, status and alias with the type and name of the account; no other
\* account and no other table changes
C23_ExistingAccountKeepsAllButStatus ==
    [][ (pc' = "accounts" /\ answer'.op = "insert_or_update_account") =>
          LET old == store.accounts
              new == store'.accounts
              a   == answer'.account
          IN  /\ DOMAIN new = DOMAIN old \cup {a}
              /\ \A b \in DOMAIN old \ {a} : new[b] = old[b]
              /\ new[a].status = answer'.status
              /\ IF a \in DOMAIN old
                 THEN /\ new[a].date = old[a].date
                      /\ new[a].type = old[a].type
                      /\ new[a].name = old[a].name
                      /\ new[a].alias = old[a].alias
                 ELSE /\ new[a].date = answer'.datetime
                      /\ new[a].type = AccountType(a)
                      /\ new[a].name = a
                      /\ new[a].alias = answer'.alias
              /\ SameButAccounts(store, store')
      ]_vars

\* an account was inserted again with another date and another alias: it
\* kept both and took the status, next to an account that stayed closed
C23_Witness ==
    /\ pc = "accounts"
    /\ answer # << >>
    /\ answer.op = "insert_or_update_account"
    /\ answer.account \in DOMAIN store.accounts
    /\ store.accounts[answer.account].date # answer.datetime
    /\ store.accounts[answer.account].alias # answer.alias
    /\ store.accounts[answer.account].status = "Open"
    /\ \E b \in DOMAIN store.accounts \ {answer.account} : store.accounts[b].status = "Close"

\* C24: close_account sets the status of an account the table holds to
\* Close and changes nothing else; for an unknown account it changes
\* nothing at all: no account record is created and no error recorded
C24_CloseOnlySetsStatus ==
    [][ (pc' = "accounts" /\ answer'.op = "close_account") =>
          LET old == store.accounts
              new == store'.accounts
              a   == answer'.account
          IN  /\ DOMAIN new = DOMAIN old
              /\ \A b \in DOMAIN old \ {a} : new[b] = old[b]
              /\ a \in DOMAIN old =>
                    /\ new[a].status = "Close"
                    /\ [new[a] EXCEPT !.status = old[a].status] = old[a]
              /\ SameButAccounts(store, store')
              /\ store'.errors = store.errors
      ]_vars

\* close_account was called for an account the table does not hold, while
\* it holds an open and a closed one
C24_Witness ==
    /\ pc = "accounts"
    /\ answer # << >>
    /\ answer.op = "close_account"
    /\ answer.account \notin DOMAIN store.accounts
    /\ store.errors = << >>
    /\ \E b, d \in DOMAIN store.accounts :
          store.accounts[b].status = "Open" /\ store.accounts[d].status = "Close"

\* close_account closed an open account next to another open one
C24_WitnessKnown ==
    /\ pc = "accounts"
    /\ answer # << >>
    /\ answer.op = "close_account"
    /\ answer.account \in DOMAIN store.accounts
    /\ store.accounts[answer.account].status = "Close"
    /\ store.accounts[answer.account].alias # "None"
    /\ \E b \in DOMAIN store.accounts : store.accounts[b].status = "Open"

(* ---------------------------------------------------------------------- *)
(* Streams with an account name that does not parse                       *)
(* ---------------------------------------------------------------------- *)
\* a transaction with a posting to a name without account type
ToInvalid == << Posting("Assets:A", SomeAmount(5, "USD")), Posting("Cash", NoAmount) >>

InvalidUniverse ==
    { [kind |-> "Open", date |-> 1, span |-> 0, account |-> "Assets:A"],
      [kind |-> "Close", date |-> 1, span |-> 0, account |-> "Cash"],
      [kind |-> "Close", date |-> MaxDate, span |-> 0, account |-> "Assets:A"],
      [kind |-> "Note", date |-> MaxDate, span |-> 0],
      Txn(1, WithElision),
      Txn(MaxDate, ToInvalid) }

InvalidInit ==
    /\ pc = "load"
    /\ IsStream(input, InvalidUniverse, MaxDirectives)
    /\ merged_metas = << >>
    /\ directives = << >>
    /\ cursor = 0
    /\ ledger = [options |-> InMemoryOptionsDefault, directives |-> << >>,
                 metas |-> << >>, trx_counter |-> 1]
    /\ store = EmptyStore
    /\ uuid = 0
    /\ folded = << >>
    /\ Idle

InvalidNext ==
    \/ Load
    \/ HandleOption
    \/ HandleOpen
    \/ HandleClose
    \/ HandleTransaction
    \/ HandleOther
    \/ Propagate
    \/ Finish

InvalidSpec == InvalidInit /\ [][InvalidNext]_vars

\* C25: a directive whose handler fails on an account name is the only one
\* left out: when process has ended it has returned a ledger, and every
\* directive whose handler does not fail has been folded
C25_StructuralErrorAbortsOnlyDirective ==
    (pc = "done" \/ pc = "failed") =>
        /\ pc = "done"
        /\ \A i \in 1 .. Len(fold_order(merged_metas, directives)) :
              ~Raises(fold_order(merged_metas, directives)[i]) =>
                  \E j \in 1 .. Len(folded) : folded[j] = fold_order(merged_metas, directives)[i]

\* process ends without a ledger exactly when the handler of some directive
\* fails, and then no directive behind the first such one was folded
AbortsWholeFold ==
    LET order == fold_order(merged_metas, directives)
    IN  /\ pc = "done" => \A i \in 1 .. Len(order) : ~Raises(order[i])
        /\ pc = "failed" =>
              /\ Raises(order[cursor + 1])
              /\ folded = SubSeq(order, 1, cursor)
              /\ \A i \in 1 .. cursor : ~Raises(order[i])

\* process ended without a ledger in front of a directive it could have folded
AbortsWholeFold_Witness ==
    /\ pc = "failed"
    /\ cursor + 1 < Len(fold_order(merged_metas, directives))
    /\ store.accounts # << >>

(* ---------------------------------------------------------------------- *)
(* Streams that record errors, and the errors read back                   *)
(* ---------------------------------------------------------------------- *)
\* Operations::errors
errors(st) == st.errors

\* posting lists the Transaction processor records errors for: two postings
\* without units, and declared units that do not cancel
TwoElided == << Posting("Assets:A", SomeAmount(5, "USD")), Posting("Expenses:B", NoAmount),
                Posting("Equity:Open", NoAmount) >>
Unbalanced == << Posting("Assets:A", SomeAmount(1500, "USD")), Posting("Expenses:B", SomeAmount(0 - 500, "USD")) >>

ErrorUniverse ==
    { Txn(1, Unbalanced),
      Txn(1, WithElision),
      [kind |-> "BalanceCheck", date |-> MaxDate, span |-> 0, account |-> "Assets:A",
       amount |-> Amount(1500, "USD")],
      [kind |-> "Note", date |-> 1, span |-> 0] }
    \cup { Txn(dt, TwoElided) : dt \in Dates }

ErrorInit ==
    /\ pc = "load"
    /\ IsStream(input, ErrorUniverse, MaxDirectives)
    /\ merged_metas = << >>
    /\ directives = << >>
    /\ cursor = 0
    /\ ledger = [options |-> InMemoryOptionsDefault, directives |-> << >>,
                 metas |-> << >>, trx_counter |-> 1]
    /\ store = EmptyStore
    /\ uuid = 0
    /\ folded = << >>
    /\ Idle

\* errors() asked of the ledger process returned
Errors ==
    /\ pc = "done"
    /\ answer' = errors(store)
    /\ pc' = "errors"
    /\ UNCHANGED <<input, merged_metas, directives, cursor, ledger, store, uuid, folded,
                   sort_in, sort_out, sort_twice, bal_txn, bal_result>>

ErrorNext ==
    \/ Load
    \/ HandleOption
    \/ HandleTransaction
    \/ HandleBalanceCheck
    \/ HandleOther
    \/ Finish
    \/ Errors
    \/ SingleAccountBalances

ErrorSpec == ErrorInit /\ [][ErrorNext]_vars

\* the number of errors the processors recorded: every UUID drawn that is
\* neither a header's nor a posting's
ErrorsEmitted == uuid - Cardinality(DOMAIN store.transactions) - Len(store.postings)

\* C26: the ledger process returns has folded every directive, errors
\* recorded or not, and errors() then returns all the errors the processors
\* recorded, in the order in which they were recorded
C26_ErrorsDoNotStopTheFold ==
    /\ pc \in {"done", "errors", "single_account_balances"} =>
          folded = fold_order(merged_metas, directives)
    /\ pc = "errors" =>
          /\ Len(answer) = ErrorsEmitted
          /\ \A i, j \in 1 .. Len(answer) : i < j => answer[i].id < answer[j].id
          /\ \A i \in 1 .. Len(answer) :
                \E k \in 1 .. Len(folded) : folded[k].span = answer[i].span
          /\ \A i, j \in 1 .. Len(answer) :
                i < j => IndexOfSpan(folded, answer[i].span) <= IndexOfSpan(folded, answer[j].span)

\* errors of three kinds came back, the first two recorded by the first
\* directive of a stream of three, one by a later directive
C26_Witness ==
    /\ pc = "errors"
    /\ Len(answer) >= 3
    /\ Cardinality({ answer[i].error_type : i \in 1 .. Len(answer) }) = 3
    /\ Len(directives) = 3
    /\ answer[1].span = directives[1].span
    /\ answer[2].span = directives[1].span
    /\ answer[Len(answer)].span # directives[1].span

\* the balances of an account were read from a store that holds errors
C26_WitnessQuery ==
    /\ pc = "single_account_balances"
    /\ store.errors # << >>
    /\ \E a \in Accounts : answer[a] # << >>

(* ---------------------------------------------------------------------- *)
(* process run again on the same directives, and reload                   *)
(* ---------------------------------------------------------------------- *)
\* directives of every kind that writes a table
ReplayUniverse ==
    { OptionDirective("title", "T1", 0),
      [kind |-> "Open", date |-> 1, span |-> 0, account |-> "Assets:A"],
      [kind |-> "Close", date |-> MaxDate, span |-> 0, account |-> "Assets:A"],
      [kind |-> "Commodity", date |-> 1, span |-> 0, name |-> "USD",
       precision |-> "3", rounding |-> "None"],
      [kind |-> "Price", date |-> 1, span |-> 0, name |-> "USD", amount |-> 7000, target |-> "CNY"],
      [kind |-> "BalanceCheck", date |-> MaxDate, span |-> 0, account |-> "Assets:A",
       amount |-> Amount(10, "USD")],
      [kind |-> "BalancePad", date |-> MaxDate, span |-> 0, account |-> "Assets:A",
       amount |-> Amount(10, "USD"), pad |-> "Equity:Open"],
      Txn(1, WithElision),
      Txn(MaxDate, Unbalanced) }

ReplayInit ==
    /\ pc = "load"
    /\ IsStream(input, ReplayUniverse, MaxDirectives)
    /\ merged_metas = << >>
    /\ directives = << >>
    /\ cursor = 0
    /\ ledger = [options |-> InMemoryOptionsDefault, directives |-> << >>,
                 metas |-> << >>, trx_counter |-> 1]
    /\ store = EmptyStore
    /\ uuid = 0
    /\ folded = << >>
    /\ Idle

\* Ledger::process called a second time with the directives of the first
\* call; answer keeps the ledger and the store of the first call
ProcessAgain ==
    /\ pc = "done"
    /\ answer = << >>
    /\ answer' = [op |-> "process", ledger |-> ledger, store |-> store, uuid |-> uuid]
    /\ folded' = << >>
    /\ pc' = "load"
    /\ UNCHANGED <<input, merged_metas, directives, cursor, ledger, store, uuid,
                   sort_in, sort_out, sort_twice, bal_txn, bal_result>>

\* Ledger::reload with an input that has not changed: the transformer loads
\* the same directives, process builds the ledger that replaces self; answer
\* keeps self as it was
Reload ==
    /\ pc = "done"
    /\ answer = << >>
    /\ answer' = [op |-> "reload", ledger |-> ledger, store |-> store, uuid |-> uuid]
    /\ folded' = << >>
    /\ pc' = "load"
    /\ UNCHANGED <<input, merged_metas, directives, cursor, ledger, store, uuid,
                   sort_in, sort_out, sort_twice, bal_txn, bal_result>>

ReplayNext ==
    \/ Load
    \/ HandleOption
    \/ HandleOpen
    \/ HandleClose
    \/ HandleCommodity
    \/ HandleTransaction
    \/ HandleBalancePad
    \/ HandleBalanceCheck
    \/ HandlePrice
    \/ Finish
    \/ ProcessAgain
    \/ Reload

ReplaySpec == ReplayInit /\ [][ReplayNext]_vars

\* the store with every UUID moved back by k: headers, the postings' own ids
\* and their trx_id, and the ids of the errors
Renamed(st, k) ==
    [st EXCEPT
        !.transactions = [id \in { j - k : j \in DOMAIN st.transactions } |->
                             [st.transactions[id + k] EXCEPT !.id = id]],
        !.postings = [i \in 1 .. Len(st.postings) |->
                         [st.postings[i] EXCEPT !.id = @ - k, !.trx_id = @ - k]],
        !.errors = [i \in 1 .. Len(st.errors) |-> [st.errors[i] EXCEPT !.id = @ - k]]]

\* the second run has ended
SecondRunDone(op) == pc = "done" /\ answer # << >> /\ answer.op = op

C29_PostingAccountsOpened ==
    \A i \in 1 .. Len(store.postings) :
        LET p    == store.postings[i]
            span == store.transactions[p.trx_id].span
        IN  /\ p.account \in DOMAIN store.accounts
            /\ \E k, n \in 1 .. Len(folded) :
                  /\ k < n
                  /\ folded[k].kind = "Open"
                  /\ folded[k].account = p.account
                  /\ folded[n].span = span
                  /\ folded[n].kind \in {"Transaction", "BalancePad"}

(* ---------------------------------------------------------------------- *)
(* BeancountTransformer::transform                                        *)
(* ---------------------------------------------------------------------- *)
MaxBeancount == 4   \* longest list of parsed directives handed to transform

\* trx.tags.insert(tag): tags is a set that keeps insertion order
tags_insert(tags, tag) ==
    IF \E i \in 1 .. Len(tags) : tags[i] = tag THEN tags ELSE Append(tags, tag)

\* for tag in &tags_stack { trx.tags.insert(tag.to_owned()) }
RECURSIVE tags_insert_all(_, _)
tags_insert_all(tags, stack) ==
    IF stack = << >> THEN tags
    ELSE tags_insert_all(tags_insert(tags, Head(stack)), Tail(stack))

\* the PopTag arm taking the top of the stack off, whatever tag it is
pop_tag_top(tags_stack, tag) ==
    IF tags_stack = << >> THEN << >> ELSE SubSeq(tags_stack, 1, Len(tags_stack) - 1)

\* the PopTag arm: tags_stack.into_iter().filter(|it| it.ne(&tag))
pop_tag(tags_stack, tag) == SelectSeq(tags_stack, LAMBDA it : it # tag)

\* Date::Date(day) carries no time of day
NoTime == 0 - 1

\* zhang_ast::Date: Date::Date(day) or Date::Datetime(day at time)
Date(day, time) == [day |-> day, time |-> time]

\* Date::naive_date
date_naive_date(date) == date.day

\* NaiveDate::and_time
and_time(day, time) == Date(day, time)

\* the two-digit parts the time texts are written with
TimeParts == {"00", "01", "02", "03"}

\* time_part: u32::from_str on one part of the text
time_part(part) ==
    CASE part = "00" -> 0
      [] part = "01" -> 1
      [] part = "02" -> 2
      [] part = "03" -> 3

\* NaiveTime::from_hms_opt, as the seconds since midnight
from_hms(hour, min, sec) == hour * 3600 + min * 60 + sec

\* parse_time: a text of three parts hh:mm:ss parses to its time of day,
\* any other text is an error; the text is the sequence of its parts
parse_time(str) ==
    IF Len(str) = 3 /\ \A i \in 1 .. 3 : str[i] \in TimeParts
    THEN [ok |-> TRUE, time |-> from_hms(time_part(str[1]), time_part(str[2]), time_part(str[3]))]
    ELSE [ok |-> FALSE, time |-> NoTime]

\* Meta::pop_one: the first value of the key leaves the meta and is returned
pop_one(meta, key) ==
    LET K == { i \in 1 .. Len(meta) : meta[i].key = key }
    IN  IF K = {} THEN [some |-> FALSE, value |-> << >>, meta |-> meta]
        ELSE LET i == CHOOSE x \in K : \A y \in K : x <= y
             IN  [some |-> TRUE, value |-> meta[i].value,
                  meta |-> SubSeq(meta, 1, i - 1) \o SubSeq(meta, i + 1, Len(meta))]

\* the macro that leaves the time entry in the meta
extract_time_keep_meta(directive) ==
    LET popped == pop_one(directive.meta, "time")
        time == IF popped.some THEN parse_time(popped.value)
                ELSE [ok |-> FALSE, time |-> NoTime]
    IN  IF time.ok
        THEN [directive EXCEPT !.date = and_time(date_naive_date(directive.date), time.time)]
        ELSE directive

\* extract_time!: the time entry is popped from the meta, and when it parses
\* the date becomes the datetime of the same day at that time
extract_time(directive) ==
    LET popped == pop_one(directive.meta, "time")
        time == IF popped.some THEN parse_time(popped.value)
                ELSE [ok |-> FALSE, time |-> NoTime]
    IN  IF time.ok
        THEN [directive EXCEPT !.meta = popped.meta,
                               !.date = and_time(date_naive_date(directive.date), time.time)]
        ELSE [directive EXCEPT !.meta = popped.meta]

\* the directive kinds extract_time_from_meta has an arm for
TimedKinds ==
    {"Open", "Close", "Commodity", "Transaction", "BalanceCheck", "BalancePad",
     "Note", "Document", "Price", "Event", "Custom", "Pad", "Balance"}

\* BeancountTransformer::extract_time_from_meta
extract_time_from_meta(directive) ==
    IF directive.kind \in TimedKinds THEN extract_time(directive) ELSE directive

\* LatestMap::get_latest: the value of the greatest key up to the given one
get_latest(map, key) ==
    LET K == { k \in DOMAIN map : k <= key }
    IN  IF K = {} THEN [some |-> FALSE, value |-> << >>]
        ELSE [some |-> TRUE, value |-> map[Max(K)]]

\* the Balance arm: pad_info.get_latest(&date).and_then(|it| it.get(account))
pad_account(pad_info, date, account) ==
    LET latest == get_latest(pad_info, date)
    IN  IF latest.some /\ account \in DOMAIN latest.value
        THEN [some |-> TRUE, value |-> latest.value[account]]
        ELSE [some |-> FALSE, value |-> ""]

\* the Pad arm: the pad account is entered under the date and the account
pad_insert(pad_info, date, account, pad) ==
    LET with_date == IF date \in DOMAIN pad_info THEN pad_info
                     ELSE MapPut(pad_info, date, << >>)
    IN  MapPut(with_date, date, MapPut(with_date[date], account, pad))

\* the Balance arm: the directive emitted for a balance directive
transform_balance(pad_info, balance) ==
    LET found == pad_account(pad_info, date_naive_date(balance.date), balance.account)
    IN  IF found.some
        THEN [kind |-> "BalancePad", span |-> balance.span, date |-> balance.date,
              account |-> balance.account, amount |-> balance.amount,
              pad |-> found.value, meta |-> balance.meta]
        ELSE [kind |-> "BalanceCheck", span |-> balance.span, date |-> balance.date,
              account |-> balance.account, amount |-> balance.amount,
              meta |-> balance.meta]

\* the body of the loop of transform for one parsed directive: the emitted
\* list, the tag stack and the pad table it leaves
transform_step(ret, tags_stack, pad_info, directive) ==
    LET d == extract_time_from_meta(directive)
    IN  CASE d.kind = "Transaction" ->
                [ret |-> Append(ret, [d EXCEPT !.tags = tags_insert_all(@, tags_stack)]),
                 tags_stack |-> tags_stack, pad_info |-> pad_info]
          [] d.kind = "PushTag" ->
                [ret |-> ret, tags_stack |-> Append(tags_stack, d.tag), pad_info |-> pad_info]
          [] d.kind = "PopTag" ->
                [ret |-> ret, tags_stack |-> pop_tag(tags_stack, d.tag), pad_info |-> pad_info]
          [] d.kind = "Pad" ->
                [ret |-> ret, tags_stack |-> tags_stack,
                 pad_info |-> pad_insert(pad_info, date_naive_date(d.date), d.account, d.pad)]
          [] d.kind = "Balance" ->
                [ret |-> Append(ret, transform_balance(pad_info, d)),
                 tags_stack |-> tags_stack, pad_info |-> pad_info]
          [] OTHER ->
                [ret |-> Append(ret, d), tags_stack |-> tags_stack, pad_info |-> pad_info]

\* the loop of transform from directive i on
RECURSIVE transform_loop(_, _, _, _, _)
transform_loop(ds, i, ret, tags_stack, pad_info) ==
    IF i > Len(ds) THEN ret
    ELSE LET r == transform_step(ret, tags_stack, pad_info, ds[i])
         IN  transform_loop(ds, i + 1, r.ret, r.tags_stack, r.pad_info)

\* BeancountTransformer::transform
transform(ds) == transform_loop(ds, 1, << >>, << >>, << >>)

\* the tags, and the parsed directives: pushtag and poptag of each tag,
\* transactions with and without a tag of their own, and another directive
Tags == {"x", "y"}

BeancountUniverse ==
    { [kind |-> k, span |-> 0, tag |-> t] : k \in {"PushTag", "PopTag"}, t \in Tags }
    \cup { [kind |-> "Transaction", span |-> 0, date |-> Date(1, NoTime), meta |-> << >>,
             tags |-> ts] : ts \in { << >>, <<"x">> } }
    \cup { [kind |-> "Open", span |-> 0, date |-> Date(1, NoTime), meta |-> << >>] }

TransformInit ==
    /\ pc = "transform"
    /\ IsStream(sort_in, BeancountUniverse, MaxBeancount)
    /\ sort_out = << >>
    /\ sort_twice = << >>
    /\ bal_txn = << >> /\ bal_result = FALSE /\ answer = << >>
    /\ NoLedger

\* transform(sort_in)
Transform ==
    /\ pc = "transform"
    /\ sort_out' = transform(sort_in)
    /\ pc' = "transformed"
    /\ UNCHANGED <<sort_in, sort_twice, input, merged_metas, directives, cursor,
                   ledger, store, uuid, folded, bal_txn, bal_result, answer>>

TransformNext == Transform

TransformSpec == TransformInit /\ [][TransformNext]_vars

\* the tag is pushed at directive i of ds: of the pushtag and poptag
\* directives of the tag in front of i, the last one is a pushtag
Pushed(ds, i, tag) ==
    LET D == { k \in 1 .. i - 1 : ds[k].kind \in {"PushTag", "PopTag"} /\ ds[k].tag = tag }
    IN  D # {} /\ ds[Max(D)].kind = "PushTag"

HasTag(d, tag) == \E k \in 1 .. Len(d.tags) : d.tags[k] = tag

\* C30: every transaction handed to transform is emitted once; it carries a
\* tag exactly when it declares the tag itself or stands behind a pushtag of
\* the tag with no poptag of the tag in between
C30_TagsBetweenPushAndPop ==
    pc = "transformed" =>
        \A i \in 1 .. Len(sort_in) :
            sort_in[i].kind = "Transaction" =>
                /\ Cardinality({ k \in 1 .. Len(sort_out) : sort_out[k].span = sort_in[i].span }) = 1
                /\ \A tag \in Tags :
                      HasTag(sort_out[IndexOfSpan(sort_out, sort_in[i].span)], tag)
                          <=> (HasTag(sort_in[i], tag) \/ Pushed(sort_in, i, tag))

\* a transaction between pushtag and poptag was emitted with the tag, and a
\* transaction behind the poptag, with a tag of its own, without it
C30_Witness ==
    /\ pc = "transformed"
    /\ Len(sort_in) = 4
    /\ sort_in[1].kind = "PushTag" /\ sort_in[1].tag = "y"
    /\ sort_in[2].kind = "Transaction"
    /\ sort_in[3].kind = "PopTag" /\ sort_in[3].tag = "y"
    /\ sort_in[4].kind = "Transaction"
    /\ Len(sort_out) = 2
    /\ HasTag(sort_out[1], "y")
    /\ sort_out[2].tags = <<"x">>

(* ---------------------------------------------------------------------- *)
(* BeancountTransformer::transform: pad and balance                       *)
(* ---------------------------------------------------------------------- *)
\* the accounts of the pad and balance directives, and the accounts padded from
PadAccounts == {"Assets:A", "Assets:B"}
PadSources(account) ==
    IF account = "Assets:A" THEN {"Equity:Open", "Equity:Other"} ELSE {"Equity:Open"}

\* the parsed directives: pad and balance directives of two accounts on
\* every day
PadUniverse ==
    { [kind |-> "Pad", span |-> 0, date |-> Date(day, NoTime), account |-> a,
       pad |-> p, meta |-> << >>] :
        day \in Dates, a \in PadAccounts, p \in {"Equity:Open", "Equity:Other"} }
    \cup { [kind |-> "Balance", span |-> 0, date |-> Date(day, NoTime), account |-> a,
            amount |-> Amount(100, "CNY"), meta |-> << >>] :
             day \in Dates, a \in PadAccounts }

PadInit ==
    /\ pc = "transform"
    /\ IsStream(sort_in, { d \in PadUniverse : d.kind = "Pad" => d.pad \in PadSources(d.account) },
                MaxBeancount)
    /\ sort_out = << >>
    /\ sort_twice = << >>
    /\ bal_txn = << >> /\ bal_result = FALSE /\ answer = << >>
    /\ NoLedger

PadNext == Transform

PadSpec == PadInit /\ [][PadNext]_vars

\* the directive transform emitted for the parsed directive of the span
Emitted(sp) == sort_out[IndexOfSpan(sort_out, sp)]

\* the pad directives in front of the balance directive i for its account
PadsBefore(ds, i) ==
    { j \in 1 .. i - 1 : ds[j].kind = "Pad" /\ ds[j].account = ds[i].account }

\* of these, the ones dated on or before the balance directive
PadsUpTo(ds, i) ==
    { j \in PadsBefore(ds, i) : ds[j].date.day <= ds[i].date.day }

\* C31: transform emits nothing for a pad directive and one directive for
\* each balance directive: a BalancePad carrying the pad account of a pad
\* when a pad of the account dated on or before the balance stands in front
\* of it, whatever pads of other accounts lie in between, and a BalanceCheck
\* when no pad of the account stands in front of it
C31_PadTurnsBalanceIntoBalancePad ==
    pc = "transformed" =>
        /\ \A k \in 1 .. Len(sort_out) : sort_out[k].kind # "Pad"
        /\ Len(sort_out) = Cardinality({ i \in 1 .. Len(sort_in) : sort_in[i].kind = "Balance" })
        /\ \A i \in 1 .. Len(sort_in) :
              sort_in[i].kind = "Balance" =>
                  /\ \E k \in 1 .. Len(sort_out) : sort_out[k].span = sort_in[i].span
                  /\ PadsUpTo(sort_in, i) # {} =>
                        /\ Emitted(sort_in[i].span).kind = "BalancePad"
                        /\ \E j \in PadsUpTo(sort_in, i) :
                              Emitted(sort_in[i].span).pad = sort_in[j].pad
                  /\ PadsBefore(sort_in, i) = {} =>
                        Emitted(sort_in[i].span).kind = "BalanceCheck"

\* what the code does: a balance becomes a BalancePad exactly when the
\* latest day up to its own on which any pad was seen has a pad of its account
PadOfLatestPadDay ==
    pc = "transformed" =>
        \A i \in 1 .. Len(sort_in) :
            sort_in[i].kind = "Balance" =>
                LET days == { sort_in[j].date.day : j \in
                               { j \in 1 .. i - 1 : /\ sort_in[j].kind = "Pad"
                                                    /\ sort_in[j].date.day <= sort_in[i].date.day } }
                IN  Emitted(sort_in[i].span).kind = "BalancePad"
                        <=> /\ days # {}
                            /\ \E j \in PadsBefore(sort_in, i) : sort_in[j].date.day = Max(days)

\* a pad of the account, a later pad of another account, then the balance:
\* the balance was emitted as a BalanceCheck
PadOfLatestPadDay_Witness ==
    /\ pc = "transformed"
    /\ Len(sort_in) = 3
    /\ sort_in[1].kind = "Pad" /\ sort_in[1].account = "Assets:A" /\ sort_in[1].date.day = 1
    /\ sort_in[2].kind = "Pad" /\ sort_in[2].account = "Assets:B" /\ sort_in[2].date.day = 2
    /\ sort_in[3].kind = "Balance" /\ sort_in[3].account = "Assets:A" /\ sort_in[3].date.day = 2
    /\ sort_out[1].kind = "BalanceCheck"

\* the pad or balance directives of the account in front of directive i
OfAccountBefore(ds, i) ==
    { j \in 1 .. i - 1 : ds[j].kind \in {"Pad", "Balance"} /\ ds[j].account = ds[i].account }

\* C32: a pad serves the next balance of its account only: a balance whose
\* nearest pad or balance directive of the account in front of it is a pad
\* dated on or before it is emitted as BalancePad, and a balance whose
\* nearest such directive is a balance is emitted as BalanceCheck
C32_PadServesNextBalanceOnly ==
    pc = "transformed" =>
        \A i \in 1 .. Len(sort_in) :
            (sort_in[i].kind = "Balance" /\ OfAccountBefore(sort_in, i) # {}) =>
                LET last == sort_in[Max(OfAccountBefore(sort_in, i))]
                IN  /\ (last.kind = "Pad" /\ last.date.day <= sort_in[i].date.day)
                          => Emitted(sort_in[i].span).kind = "BalancePad"
                    /\ last.kind = "Balance"
                          => Emitted(sort_in[i].span).kind = "BalanceCheck"

\* what the code does: the pad table is never emptied, so with no pad in
\* between a second balance of the account is a BalancePad as well
PadServesEveryLaterBalance ==
    pc = "transformed" =>
        \A i, k \in 1 .. Len(sort_in) :
            ( /\ i < k
              /\ \A j \in i + 1 .. k - 1 : sort_in[j].kind # "Pad"
              /\ sort_in[i].kind = "Balance" /\ sort_in[k].kind = "Balance"
              /\ sort_in[i].account = sort_in[k].account
              /\ sort_in[i].date.day = sort_in[k].date.day
              /\ Emitted(sort_in[i].span).kind = "BalancePad" )
                => Emitted(sort_in[k].span).kind = "BalancePad"

\* a pad and two balances of the account behind it: both were emitted as
\* BalancePad
PadServesEveryLaterBalance_Witness ==
    /\ pc = "transformed"
    /\ Len(sort_in) = 3
    /\ sort_in[1].kind = "Pad" /\ sort_in[2].kind = "Balance" /\ sort_in[3].kind = "Balance"
    /\ sort_in[1].account = sort_in[2].account /\ sort_in[2].account = sort_in[3].account
    /\ sort_out[1].kind = "BalancePad" /\ sort_out[2].kind = "BalancePad"

(* ---------------------------------------------------------------------- *)
(* BeancountTransformer::transform: the time entry of the meta            *)
(* ---------------------------------------------------------------------- *)
MaxTimed == 2   \* longest list of directives with metas handed to transform

\* a meta entry
MetaEntry(key, value) == [key |-> key, value |-> value]

\* the metas of the parsed directives: none, a time that parses, a time
\* that does not, another entry, and another entry in front of a time
TimedMetas ==
    { << >>,
      << MetaEntry("time", <<"01", "02", "03">>) >>,
      << MetaEntry("time", <<"noon">>) >>,
      << MetaEntry("note", <<"n">>) >>,
      << MetaEntry("note", <<"n">>), MetaEntry("time", <<"00", "00", "03">>) >> }

\* their dates: a plain date of every day, and one that is a datetime already
TimedDates == { Date(day, NoTime) : day \in Dates } \cup { Date(1, 60) }

\* the parsed directives: a directive of the core, a transaction, a balance
\* of the Beancount syntax, each with every meta, and a comment
TimedUniverse ==
    { [kind |-> "Open", span |-> 0, date |-> dt, meta |-> m] :
        dt \in TimedDates, m \in TimedMetas }
    \cup { [kind |-> "Transaction", span |-> 0, date |-> dt, meta |-> m, tags |-> << >>] :
             dt \in TimedDates, m \in TimedMetas }
    \cup { [kind |-> "Balance", span |-> 0, date |-> dt, meta |-> m, account |-> "Assets:A",
            amount |-> Amount(100, "CNY")] : dt \in TimedDates, m \in TimedMetas }
    \cup { [kind |-> "Comment", span |-> 0] }

TimedInit ==
    /\ pc = "transform"
    /\ IsStream(sort_in, TimedUniverse, MaxTimed)
    /\ sort_out = << >>
    /\ sort_twice = << >>
    /\ bal_txn = << >> /\ bal_result = FALSE /\ answer = << >>
    /\ NoLedger

TimedNext == Transform

TimedSpec == TimedInit /\ [][TimedNext]_vars

\* the positions of the time entries of a meta
TimeEntries(meta) == { i \in 1 .. Len(meta) : meta[i].key = "time" }

\* the number a two-digit part is written for
TwoDigits(n) == CASE n = 0 -> "00" [] n = 1 -> "01" [] n = 2 -> "02" [] n = 3 -> "03"

\* the text reads hh:mm:ss
IsTimeText(text) ==
    \E h, m, s \in 0 .. 3 : text = << TwoDigits(h), TwoDigits(m), TwoDigits(s) >>

\* the text reads hh:mm:ss and the time of day is hh hours, mm minutes and
\* ss seconds after midnight
ReadsAs(text, time) ==
    \E h, m, s \in 0 .. 3 :
        /\ text = << TwoDigits(h), TwoDigits(m), TwoDigits(s) >>
        /\ time = (h * 60 + m) * 60 + s

\* C35: a dated directive whose meta has a time entry that reads hh:mm:ss is
\* emitted with the datetime of its day at that time and with the entry taken
\* out of its meta; a directive without a time entry is emitted with its date
\* and its meta as they were
C35_TimeOfMetaBecomesDatetime ==
    pc = "transformed" =>
        \A i \in 1 .. Len(sort_in) :
            sort_in[i].kind \in {"Open", "Transaction", "Balance"} =>
                LET d == sort_in[i]
                    out == Emitted(d.span)
                IN  /\ \A k \in TimeEntries(d.meta) :
                          IsTimeText(d.meta[k].value) =>
                              /\ out.date.day = d.date.day
                              /\ ReadsAs(d.meta[k].value, out.date.time)
                              /\ out.meta = SelectSeq(d.meta, LAMBDA e : e.key # "time")
                    /\ TimeEntries(d.meta) = {} =>
                          /\ out.date = d.date
                          /\ out.meta = d.meta

\* an open directive with the time 01:02:03 was emitted at 3723 seconds of
\* its day with an empty meta, and a balance without a time entry with its
\* date and meta unchanged
C35_Witness ==
    /\ pc = "transformed"
    /\ Len(sort_in) = 2
    /\ sort_in[1].kind = "Open"
    /\ sort_in[1].date = Date(2, NoTime)
    /\ sort_in[1].meta = << MetaEntry("time", <<"01", "02", "03">>) >>
    /\ sort_out[1].date = Date(2, 3723)
    /\ sort_out[1].meta = << >>
    /\ sort_in[2].kind = "Balance"
    /\ sort_in[2].meta = << MetaEntry("note", <<"n">>) >>
    /\ sort_out[2].kind = "BalanceCheck"
    /\ sort_out[2].date = sort_in[2].date
    /\ sort_out[2].meta = sort_in[2].meta

(* ---------------------------------------------------------------------- *)
(* Operations::account_journals                                           *)
(* ---------------------------------------------------------------------- *)
\* Ord::cmp on integers
cmp(x, y) == IF x < y THEN "Less" ELSE IF x > y THEN "Greater" ELSE "Equal"

\* Ordering::reverse
reverse(o) == IF o = "Less" THEN "Greater" ELSE IF o = "Greater" THEN "Less" ELSE "Equal"

\* Ordering::then
then(o, other) == IF o = "Equal" THEN other ELSE o

\* a comparator that orders the journal oldest first
journal_cmp_ascending(a, b) ==
    then(cmp(a.trx_datetime, b.trx_datetime), cmp(a.trx_sequence, b.trx_sequence))

\* the closure handed to sorted_by in account_journals
journal_cmp(a, b) ==
    then(reverse(cmp(a.trx_datetime, b.trx_datetime)),
         reverse(cmp(a.trx_sequence, b.trx_sequence)))

\* the position the element at i takes in the stable sort by journal_cmp
JournalRank(s, i) ==
    1 + Cardinality({ j \in 1 .. Len(s) :
                        \/ journal_cmp(s[j], s[i]) = "Less"
                        \/ (journal_cmp(s[j], s[i]) = "Equal" /\ j < i) })

\* Itertools::sorted_by with that closure
sorted_by_journal_cmp(s) ==
    [r \in 1 .. Len(s) |-> s[CHOOSE i \in 1 .. Len(s) : JournalRank(s, i) = r]]

\* the AccountJournalDomain built for a posting; the headers of the model
\* carry neither payee nor narration
AccountJournalDomain(posting) ==
    [ datetime |-> posting.trx_datetime,
      account |-> posting.account,
      trx_id |-> posting.id,
      inferred_unit_number |-> posting.inferred_amount.number,
      inferred_unit_commodity |-> posting.inferred_amount.currency,
      account_after_number |-> posting.after_amount.number,
      account_after_commodity |-> posting.after_amount.currency ]

\* Operations::account_journals
account_journals(st, account) ==
    LET sorted == sorted_by_journal_cmp(SelectSeq(st.postings, LAMBDA posting : posting.account = account))
    IN  [k \in 1 .. Len(sorted) |-> AccountJournalDomain(sorted[k])]

\* a transaction with two postings on one account
TwiceOnAccount == << Posting("Assets:A", SomeAmount(5, "USD")), Posting("Assets:A", SomeAmount(0 - 5, "USD")) >>

\* the directives that put postings into the store
JournalUniverse ==
    { Txn(dt, ps) : dt \in Dates, ps \in {WithElision, InCNY, TwiceOnAccount} }

JournalInit ==
    /\ pc = "load"
    /\ IsStream(input, JournalUniverse, MaxDirectives)
    /\ merged_metas = << >>
    /\ directives = << >>
    /\ cursor = 0
    /\ ledger = [options |-> InMemoryOptionsDefault, directives |-> << >>,
                 metas |-> << >>, trx_counter |-> 1]
    /\ store = EmptyStore
    /\ uuid = 0
    /\ folded = << >>
    /\ Idle

\* the HTTP layer asks account_journals for an account
AccountJournals ==
    /\ pc = "done"
    /\ answer' = [a \in Accounts |-> account_journals(store, a)]
    /\ pc' = "account_journals"
    /\ UNCHANGED <<input, merged_metas, directives, cursor, ledger, store, uuid, folded,
                   sort_in, sort_out, sort_twice, bal_txn, bal_result>>

JournalNext ==
    \/ Load
    \/ HandleOption
    \/ HandleTransaction
    \/ Finish
    \/ AccountJournals

JournalSpec == JournalInit /\ [][JournalNext]_vars

\* the posting of the store a journal row was built from: the row carries
\* the id of the posting
PostingOfRow(row) == store.postings[CHOOSE i \in 1 .. Len(store.postings) : store.postings[i].id = row.trx_id]

\* C33: the rows account_journals returns for an account are its postings,
\* one row each, and from one row to the next the trx_datetime does not
\* grow and, where it stays, the trx_sequence does not grow
C33_AccountJournalsNewestFirst ==
    pc = "account_journals" =>
        \A a \in Accounts :
            LET rows == answer[a]
                mine == { i \in 1 .. Len(store.postings) : store.postings[i].account = a }
            IN  /\ Len(rows) = Cardinality(mine)
                /\ { rows[k].trx_id : k \in 1 .. Len(rows) } = { store.postings[i].id : i \in mine }
                /\ \A k \in 1 .. Len(rows) :
                      /\ rows[k].account = a
                      /\ rows[k].datetime = PostingOfRow(rows[k]).trx_datetime
                      /\ rows[k].account_after_number = PostingOfRow(rows[k]).after_amount.number
                      /\ rows[k].inferred_unit_number = PostingOfRow(rows[k]).inferred_amount.number
                /\ \A k \in 1 .. Len(rows) - 1 :
                      \/ PostingOfRow(rows[k]).trx_datetime > PostingOfRow(rows[k + 1]).trx_datetime
                      \/ /\ PostingOfRow(rows[k]).trx_datetime = PostingOfRow(rows[k + 1]).trx_datetime
                         /\ PostingOfRow(rows[k]).trx_sequence >= PostingOfRow(rows[k + 1]).trx_sequence

\* the journal of an account holds postings of two datetimes, and two
\* transactions of one datetime, newest and last-numbered first
C33_Witness ==
    /\ pc = "account_journals"
    /\ Len(answer["Assets:A"]) >= 3
    /\ Len(answer["Expenses:B"]) >= 1
    /\ \E k \in 1 .. Len(answer["Assets:A"]) - 1 :
          answer["Assets:A"][k].datetime > answer["Assets:A"][k + 1].datetime
    /\ \E k \in 1 .. Len(answer["Assets:A"]) - 1 :
          /\ answer["Assets:A"][k].datetime = answer["Assets:A"][k + 1].datetime
          /\ PostingOfRow(answer["Assets:A"][k]).trx_sequence
                > PostingOfRow(answer["Assets:A"][k + 1]).trx_sequence

(* ---------------------------------------------------------------------- *)
(* sort_directives_datetime called on a long list                         *)
(* ---------------------------------------------------------------------- *)
MaxPrefix == 2   \* longest mixed list in front of the long run of dated directives

\* twenty dated directives: eight of the last datetime, then twelve of the
\* first
LongBody ==
    [i \in 1 .. 20 |-> [kind |-> "Open", date |-> IF i <= 8 THEN MaxDate ELSE 1, span |-> 0]]

LongSortInit ==
    /\ pc = "sort"
    /\ \E k \in 1 .. MaxPrefix : \E ds \in [1 .. k -> SortUniverse] :
          sort_in = WithSpans(ds \o LongBody)
    /\ sort_out = << >>
    /\ sort_twice = << >>
    /\ bal_txn = << >> /\ bal_result = FALSE /\ answer = << >>
    /\ NoLedger

LongSortNext == SortOnce \/ SortAgain

LongSortSpec == LongSortInit /\ [][LongSortNext]_vars

\* the number of dateless directives in front of position i
DatelessBefore(ds, i) ==
    Cardinality({ j \in 1 .. i - 1 : datetime(ds[j]) = NoDatetime })

\* C34: the sort leaves every dateless directive at its index, keeps every
\* dated directive between the dateless directives it stood between, and
\* puts the dated directives between two dateless ones in ascending order
C34_DatelessStayAndSeparate ==
    pc \in {"sorted", "resorted"} =>
        /\ Len(sort_out) = Len(sort_in)
        /\ \A i \in 1 .. Len(sort_in) :
              IF datetime(sort_in[i]) = NoDatetime
              THEN sort_out[i] = sort_in[i]
              ELSE /\ \E k \in 1 .. Len(sort_out) : sort_out[k].span = sort_in[i].span
                   /\ DatelessBefore(sort_out, IndexOfSpan(sort_out, sort_in[i].span))
                          = DatelessBefore(sort_in, i)
        /\ \A i, j \in 1 .. Len(sort_out) :
              ( /\ i < j
                /\ \A k \in i .. j : datetime(sort_out[k]) # NoDatetime )
                    => datetime(sort_out[i]) <= datetime(sort_out[j])

\* up to MAX_INSERTION directives the sort is an insertion sort, and the
\* dateless directives stay while the dated ones are sorted between them
ShortListsKeepDateless ==
    Len(sort_in) <= MAX_INSERTION => C34_DatelessStayAndSeparate

\* a dated directive, a dateless one and a dated run behind it came out with
\* the dateless directive at another index
LongListMovesDateless ==
    /\ pc = "sorted"
    /\ Len(sort_in) = 22
    /\ datetime(sort_in[2]) = NoDatetime
    /\ datetime(sort_out[2]) # NoDatetime

(* ---------------------------------------------------------------------- *)
(* insert_transaction and insert_transaction_posting called on their own  *)
(* ---------------------------------------------------------------------- *)
MaxInserts == 4   \* most headers and postings inserted, and the transaction ids tried

\* the account names handed to insert_transaction_posting: one that parses
\* and one that does not
PostingAccounts == {"Assets:A", "Cash"}

PostingInit ==
    /\ pc = "postings"
    /\ store = EmptyStore
    /\ uuid = 0
    /\ input = << >> /\ merged_metas = << >> /\ directives = << >> /\ cursor = 0
    /\ ledger = [options |-> InMemoryOptionsDefault, directives |-> << >>,
                 metas |-> << >>, trx_counter |-> 1]
    /\ folded = << >>
    /\ Idle

\* insert_transaction(&Uuid::new_v4(), sequence, datetime, ..)
InsertTransaction ==
    /\ pc = "postings"
    /\ uuid < MaxInserts
    /\ \E sequence \in 1 .. 2, dt \in Dates :
          store' = insert_transaction(store, uuid + 1, sequence, dt, "Completed", 0)
    /\ uuid' = uuid + 1
    /\ answer' = << >>
    /\ UNCHANGED <<pc, input, merged_metas, directives, cursor, ledger, folded,
                   sort_in, sort_out, sort_twice, bal_txn, bal_result>>

\* insert_transaction_posting(trx_id, account_name, ..): the expect panics
\* on an id that is no key of transactions, the ? returns on an account
\* name that does not parse, and otherwise the posting is pushed
InsertTransactionPosting ==
    /\ pc = "postings"
    /\ uuid < MaxInserts
    /\ \E trx_id \in 1 .. MaxInserts, account \in PostingAccounts :
          /\ answer' = [trx_id |-> trx_id, account_name |-> account, store |-> store]
          /\ IF trx_id \notin DOMAIN store.transactions
             THEN pc' = "panicked" /\ UNCHANGED <<store, uuid>>
             ELSE IF ~ValidAccount(account)
             THEN UNCHANGED <<pc, store, uuid>>
             ELSE /\ store' = insert_transaction_posting(store, uuid + 1, trx_id, account,
                                  NoAmount, Amount(1, "USD"), Amount(0, "USD"), Amount(1, "USD"))
                  /\ uuid' = uuid + 1
                  /\ pc' = pc
    /\ UNCHANGED <<input, merged_metas, directives, cursor, ledger, folded,
                   sort_in, sort_out, sort_twice, bal_txn, bal_result>>

PostingNext == InsertTransaction \/ InsertTransactionPosting

PostingSpec == PostingInit /\ [][PostingNext]_vars

\* every posting belongs to a stored header and repeats its sequence and
\* datetime
PostingsRepeatHeader(st) ==
    \A i \in 1 .. Len(st.postings) :
        /\ st.postings[i].trx_id \in DOMAIN st.transactions
        /\ st.postings[i].trx_sequence = st.transactions[st.postings[i].trx_id].sequence
        /\ st.postings[i].trx_datetime = st.transactions[st.postings[i].trx_id].datetime

\* C36: in every store each posting's trx_id is a key of transactions and
\* its trx_sequence and trx_datetime are those of that header; a call of
\* insert_transaction_posting with an id that is no key adds no posting
C36_PostingsRepeatHeader ==
    /\ PostingsRepeatHeader(store)
    /\ (answer # << >> /\ answer.trx_id \notin DOMAIN answer.store.transactions)
          => store.postings = answer.store.postings

\* a posting of the second of two headers is stored with the header's
\* sequence and datetime, and a call with an unknown id has left the
\* postings as they were
C36_Witness ==
    /\ pc = "panicked"
    /\ Cardinality(DOMAIN store.transactions) = 2
    /\ Len(store.postings) = 1
    /\ store.postings[1].trx_id = 2
    /\ store.postings[1].trx_sequence = 2
    /\ store.transactions[1].sequence = 1
    /\ store.transactions[store.postings[1].trx_id].datetime = 2
    /\ answer.trx_id \notin DOMAIN store.transactions

(* ---------------------------------------------------------------------- *)
(* The lot lookups as reads                                               *)
(* ---------------------------------------------------------------------- *)
\* C37: a call of account_lot_fifo, like one of account_lot, leaves every
\* table of the store as it was, commodity_lots with its keys and its lists
\* included, whether or not the account has lots and a lot matches
C37_LotLookupsLeaveStore ==
    [][ pc' = "account_lot_fifo" => store' = store ]_vars

\* what the code does: the lookup leaves every list of lots as it was, and
\* gives an account without an entry in commodity_lots an empty one
LotLookupInsertsEmptyEntry ==
    [][ pc' = "account_lot_fifo" =>
          /\ \A a \in LotAccounts : LotsOf(store', a) = LotsOf(store, a)
          /\ DOMAIN store'.commodity_lots = DOMAIN store.commodity_lots \cup {answer'.account}
          /\ \A t \in DOMAIN store : t # "commodity_lots" => store'[t] = store[t]
      ]_vars

\* a lookup for an account without lots has left an entry for it
LotLookupInsertsEmptyEntry_Witness ==
    /\ pc = "account_lot_fifo"
    /\ store.commodity_lots[answer.account] = << >>
    /\ \E a \in LotAccounts \ {answer.account} : Len(LotsOf(store, a)) > 0


(* ---------------------------------------------------------------------- *)
(* Ledger::reload next to a reader that holds an Operations               *)
(* ---------------------------------------------------------------------- *)
MaxReload == 2   \* longest directive list of a load or a reload

ReloadUniverse ==
    { [kind |-> "Open", date |-> 1, span |-> 0, account |-> "Assets:A"],
      [kind |-> "Close", date |-> MaxDate, span |-> 0, account |-> "Cash"],
      Txn(1, WithElision) }

\* visited_files of the transformer's result: the entry file, and after the
\* entry file was edited the file it includes
VisitedFiles(reloading) == IF reloading THEN << "main.zhang", "extra.zhang" >> ELSE << "main.zhang" >>

\* the fields of a Ledger; store names the Arc, the heap holds what it points to
LedgerOf(arc, lg, files) ==
    [store |-> arc, options |-> lg.options, directives |-> lg.directives,
     metas |-> lg.metas, trx_counter |-> lg.trx_counter, visited_files |-> files]

\* a process that folds into the Arc of the ledger it was called on
process_store_of_self(self_arc) == self_arc

\* store: Default::default() in process: an Arc no ledger and no reader holds
process_store(self_arc) == self_arc + 1

\* reload assigning whatever process built
reload_assign_always(self, result) == result.ledger

\* the tail of reload: the ? returns the error and leaves self alone,
\* *self = reload_ledger runs on Ok only
reload(self, result) == IF result.ok THEN result.ledger ELSE self

\* Ledger::operations: a clone of the Arc in self.store
operations(self) == self.store

\* what an Arc points to: the store under construction while a reload runs
\* process on that Arc, the store a ledger was published with otherwise
Deref(arc) ==
    IF answer.result = "Running" /\ arc = answer.building THEN store ELSE answer.heap[arc]

\* the heap once process has returned: the Arc it built into stays alive
\* when the ledger holds it
HeapAfter(kept) ==
    [a \in DOMAIN answer.heap \cup (IF kept THEN {answer.building} ELSE {}) |->
        IF a = answer.building THEN store ELSE answer.heap[a]]

NoStore == [some |-> FALSE]

ReloadInit ==
    /\ pc = "load"
    /\ IsStream(input, ReloadUniverse, MaxReload)
    /\ merged_metas = << >>
    /\ directives = << >>
    /\ cursor = 0
    /\ ledger = [options |-> InMemoryOptionsDefault, directives |-> << >>,
                 metas |-> << >>, trx_counter |-> 1]
    /\ store = EmptyStore
    /\ uuid = 0
    /\ folded = << >>
    /\ Idle

\* Transaction::handler up to and including insert_transaction: the header
\* is in the store, the postings are not
BeginTransaction ==
    /\ Folding /\ Current.kind = "Transaction"
    /\ ~Raises(Current)
    /\ store' = insert_transaction(store, uuid + 1, ledger.trx_counter, Current.date,
                    IF Current.flag = "None" THEN "Completed" ELSE Current.flag, Current.span)
    /\ pc' = "in_transaction"
    /\ UNCHANGED <<input, merged_metas, directives, cursor, ledger, uuid, folded,
                   sort_in, sort_out, sort_twice, bal_txn, bal_result, answer>>

\* the rest of Transaction::handler and the loop's bookkeeping
EndTransaction ==
    /\ pc = "in_transaction"
    /\ LET c == transaction_handler(Ctx(store, ledger, uuid), Current, Current.span)
       IN  /\ store' = c.store
           /\ ledger' = c.ledger
           /\ uuid' = c.uuid
    /\ cursor' = cursor + 1
    /\ folded' = Append(folded, Current)
    /\ pc' = "fold"
    /\ UNCHANGED <<input, merged_metas, directives,
                   sort_in, sort_out, sort_twice, bal_txn, bal_result, answer>>

\* Ledger::load returned Ok: the ledger a server starts with
Publish ==
    /\ pc = "done"
    /\ answer = << >>
    /\ answer' = [self |-> LedgerOf(1, ledger, VisitedFiles(FALSE)),
                  heap |-> << store >>,
                  building |-> 1,
                  before |-> [ledger |-> LedgerOf(1, ledger, VisitedFiles(FALSE)), store |-> store],
                  result |-> "None",
                  held |-> 0,
                  seen |-> NoStore]
    /\ pc' = "serving"
    /\ UNCHANGED <<input, merged_metas, directives, cursor, ledger, store, uuid, folded,
                   sort_in, sort_out, sort_twice, bal_txn, bal_result>>

\* reload, first statement: the transformer returns Err
TransformerFails ==
    /\ pc = "serving"
    /\ answer' = [answer EXCEPT
                     !.before = [ledger |-> answer.self, store |-> Deref(answer.self.store)],
                     !.self = reload(answer.self, [ok |-> FALSE, ledger |-> answer.self]),
                     !.result = "TransformerErr"]
    /\ pc' = "reloaded"
    /\ UNCHANGED <<input, merged_metas, directives, cursor, ledger, store, uuid, folded,
                   sort_in, sort_out, sort_twice, bal_txn, bal_result>>

\* reload, first statement: the transformer returns the directives of the
\* edited files, and process starts on them
BeginReload ==
    /\ pc = "serving"
    /\ IsStream(input', ReloadUniverse, MaxReload)
    /\ answer' = [answer EXCEPT
                     !.before = [ledger |-> answer.self, store |-> Deref(answer.self.store)],
                     !.building = process_store(answer.self.store),
                     !.result = "Running"]
    /\ folded' = << >>
    /\ pc' = "load"
    /\ UNCHANGED <<merged_metas, directives, cursor, ledger, store, uuid,
                   sort_in, sort_out, sort_twice, bal_txn, bal_result>>

\* what process hands to the tail of reload
ProcessResult(ok) ==
    [ok |-> ok, ledger |-> LedgerOf(answer.building, ledger, VisitedFiles(TRUE))]

\* reload: process returned Err
FoldFails ==
    /\ pc = "failed"
    /\ answer # << >>
    /\ answer' = [answer EXCEPT
                     !.self = reload(answer.self, ProcessResult(FALSE)),
                     !.heap = HeapAfter(reload(answer.self, ProcessResult(FALSE)).store
                                            = answer.building),
                     !.result = "ProcessErr"]
    /\ pc' = "reloaded"
    /\ UNCHANGED <<input, merged_metas, directives, cursor, ledger, store, uuid, folded,
                   sort_in, sort_out, sort_twice, bal_txn, bal_result>>

\* reload: process returned Ok and *self = reload_ledger runs
Replace ==
    /\ pc = "done"
    /\ answer # << >>
    /\ answer' = [answer EXCEPT
                     !.self = reload(answer.self, ProcessResult(TRUE)),
                     !.heap = HeapAfter(TRUE),
                     !.result = "Ok"]
    /\ pc' = "reloaded"
    /\ UNCHANGED <<input, merged_metas, directives, cursor, ledger, store, uuid, folded,
                   sort_in, sort_out, sort_twice, bal_txn, bal_result>>

\* a reader calls Ledger::operations; reload borrows the ledger mutably, so
\* the call happens before or after it
TakeOperations ==
    /\ pc \in {"serving", "reloaded"}
    /\ answer.held # operations(answer.self)
    /\ answer' = [answer EXCEPT !.held = operations(answer.self)]
    /\ UNCHANGED <<pc, input, merged_metas, directives, cursor, ledger, store, uuid, folded,
                   sort_in, sort_out, sort_twice, bal_txn, bal_result>>

\* the reader runs a query through the Operations it holds, at any moment;
\* seen is the store the read guard gave it
Read ==
    /\ answer # << >>
    /\ answer.held # 0
    /\ answer' = [answer EXCEPT !.seen = [some |-> TRUE, store |-> Deref(answer.held),
                                          during |-> pc]]
    /\ answer'.seen # answer.seen
    /\ UNCHANGED <<pc, input, merged_metas, directives, cursor, ledger, store, uuid, folded,
                   sort_in, sort_out, sort_twice, bal_txn, bal_result>>

\* the one Close of ReloadUniverse names an account that does not parse: its
\* handler returns the error and Propagate is the step it takes
ReloadNext ==
    \/ Load
    \/ HandleOption
    \/ HandleOpen
    \/ BeginTransaction
    \/ EndTransaction
    \/ Propagate
    \/ Finish
    \/ Publish
    \/ TransformerFails
    \/ BeginReload
    \/ FoldFails
    \/ Replace
    \/ TakeOperations
    \/ Read

ReloadSpec == ReloadInit /\ [][ReloadNext]_vars

\* every transaction header of the store has at least one posting
HeadersHavePostings(st) ==
    \A id \in DOMAIN st.transactions :
        \E i \in 1 .. Len(st.postings) : st.postings[i].trx_id = id

\* the stores a ledger was published with: the previous one and the new one
WholeStores == {answer.before.store} \cup {answer.heap[a] : a \in DOMAIN answer.heap}

\* C38: whatever a query through Operations reads, while a load or a reload
\* is running or not, is the complete store of the previous ledger or the
\* complete store of the new one, never a store with a directive half applied
C38_ReadersSeeWholeStores ==
    (answer # << >> /\ answer.seen.some) =>
        /\ answer.seen.store \in WholeStores
        /\ HeadersHavePostings(answer.seen.store)

\* a reader read the previous store, which has a transaction, while the
\* reload's fold stood between a header and its postings
C38_Witness ==
    /\ pc = "in_transaction"
    /\ answer # << >>
    /\ answer.seen.some
    /\ answer.seen.during = "in_transaction"
    /\ ~HeadersHavePostings(store)
    /\ DOMAIN answer.seen.store.transactions # {}
    /\ answer.seen.store = answer.before.store
    /\ answer.seen.store # store

\* C40: after a reload that returned an error, from the transformer or from
\* the fold, the ledger has the fields and the store it had before the call
C40_FailedReloadLeavesLedger ==
    (answer # << >> /\ pc = "reloaded" /\ answer.result \in {"TransformerErr", "ProcessErr"}) =>
        /\ answer.self = answer.before.ledger
        /\ Deref(answer.self.store) = answer.before.store

\* the fold of a reload failed after it had built part of a ledger that
\* differs from the one in place
C40_Witness ==
    /\ pc = "reloaded"
    /\ answer # << >>
    /\ answer.result = "ProcessErr"
    /\ cursor > 0
    /\ store # answer.before.store
    /\ answer.self = answer.before.ledger


(* ---------------------------------------------------------------------- *)
(* What the store holds when the fold reaches a balance directive         *)
(* ---------------------------------------------------------------------- *)
\* the directive a transaction header was stored for: the header keeps the
\* span of the transaction, or of the balance directive that padded
SourceOf(st, posting) == input[st.transactions[posting.trx_id].span]

\* posting i is of a transaction written in the input and dated before dt
UserPostingBefore(st, i, dt) ==
    /\ SourceOf(st, st.postings[i]).kind = "Transaction"
    /\ st.postings[i].trx_datetime < dt

\* posting i is of the transaction a BalancePad folded earlier has added
PadPostingUpTo(st, i, dt) ==
    /\ SourceOf(st, st.postings[i]).kind = "BalancePad"
    /\ \E k \in 1 .. Len(folded) : folded[k] = SourceOf(st, st.postings[i])
    /\ st.postings[i].trx_datetime <= dt

\* C39: when the fold is about to run the handler of a BalanceCheck or a
\* BalancePad dated D, every posting in the store is of a transaction of the
\* input dated strictly before D or of a pad transaction added by a balance
\* directive folded earlier, and the balance the handler reads is the
\* after_amount of such a posting
C39_BalanceSeesEarlierTransactions ==
    (Folding /\ Current.kind \in BalanceKinds) =>
        /\ \A i \in 1 .. Len(store.postings) :
              \/ UserPostingBefore(store, i, Current.date)
              \/ PadPostingUpTo(store, i, Current.date)
        /\ LET option == account_target_day_balance(store, Current.account, Current.date,
                             Current.amount.currency)
           IN  option.some =>
                   \E i \in 1 .. Len(store.postings) :
                       /\ store.postings[i].account = Current.account
                       /\ store.postings[i].after_amount.number = option.number
                       /\ \/ UserPostingBefore(store, i, Current.date)
                          \/ PadPostingUpTo(store, i, Current.date)

\* the fold stands at a BalanceCheck that the input lists after a transaction
\* of the same datetime and after a BalancePad of the same datetime; the pad
\* transaction is in the store, the transaction of the input is not
C39_Witness ==
    /\ Folding /\ Current.kind = "BalanceCheck"
    /\ \E i \in 1 .. Len(input) :
          /\ input[i].kind = "Transaction"
          /\ input[i].date = Current.date
          /\ i < Current.span
    /\ \E i \in 1 .. Len(store.postings) :
          /\ PadPostingUpTo(store, i, Current.date)
          /\ store.postings[i].trx_datetime = Current.date
          /\ store.postings[i].account = Current.account

====
